---------------------------- MODULE Spec2Model ----------------------------
(***************************************************************************)
(* Model of the signal aggregation and trade-validation pipeline of        *)
(* server/progressive-analysis.ts and of the oracle gate of                *)
(* server/gemini-decision.ts.                                              *)
(*                                                                         *)
(* Numbers.  Prices and ATR are kept as integers in units of 1/PriceScale  *)
(* of a price unit, so that every product of computeFallbackTradeTargets   *)
(* (x0.002, x0.25, x0.5, x1.5, x2.4, x1.05) is exact.  A volume ratio is a *)
(* fraction [num, den].  Confidences, ADX and trend strength are integers. *)
(***************************************************************************)
EXTENDS Integers, Sequences, FiniteSets, TLC

VARIABLES
    op,               \* pure-function harness: the function applied
    args,             \* pure-function harness: its arguments
    ret,              \* pure-function harness: its result (Pending before)
    entryPoint,       \* the analysis entry point of the run, and its options
    pc,               \* position of the run in the entry point's body
    marketData,       \* result of fetchMarketData(pair, timeframe)
    indicators,       \* result of analyzeMarket(marketData.candles)
    anchorIndicators, \* indicators of the anchor timeframe, or Null
    gemini,           \* the call of getGeminiPrediction of the run
    events,           \* stage updates published by sendStageUpdate, in order
    validation,       \* the run's call of calculateValidatedConfidence
    thinkingCallback, \* the run's use of waitForAiThinkingComplete
    outcome           \* how the run ended: a returned Prediction or a throw

harnessVars == <<op, args, ret>>
runVars == <<entryPoint, pc, marketData, indicators, anchorIndicators,
             gemini, events, validation, thinkingCallback, outcome>>
vars == <<op, args, ret, entryPoint, pc, marketData, indicators,
          anchorIndicators, gemini, events, validation, thinkingCallback,
          outcome>>

Abs(x) == IF x < 0 THEN -x ELSE x
Max(a, b) == IF a >= b THEN a ELSE b
Min(a, b) == IF a <= b THEN a ELSE b

\* 1/PriceScale of a price unit is the unit of every price of the model:
\* 500 for the 0.002 floor, 8 for the 0.25 * 0.5 entry band, 5 for 2.4 and 1.05.
PriceScale == 500 * 8 * 5

\* ATR values are multiples of AtrStep (0.002 of a price unit), which keeps
\* safeAtr / 8, safeAtr * 12 / 5 and safeAtr * 21 / 20 whole.
AtrStep == 8 * 5

(***************************************************************************)
(* Bounds of the checked input space.                                      *)
(***************************************************************************)
MinBase == 77
MaxBase == 100
MaxAdx == 16
MaxPrice == 2
MaxAtrSteps == 2
MaxCandPrice == 3

(***************************************************************************)
(* calculateValidatedConfidence                                            *)
(***************************************************************************)
NoReason == "null"
ReasonMinConfidence == "Confidence below minimum threshold"
ReasonTrendConflict == "Trend Conflict: Counter-trend setups require higher confidence (>82%)"
ReasonLowVolume == "Low volume requires higher baseline confidence"
ReasonDivergence == "Volume divergence detected - weak breakout/breakdown"
ReasonRsiNeutral == "RSI in neutral zone - low momentum setup"
ReasonRanging == "ADX < 15 - Extremely ranging market, no edge detected"

\* volumeRatio < 1.1 for a ratio num/den with den > 0
RatioBelowThreshold(volumeRatio) == volumeRatio.num * 10 < volumeRatio.den * 11

Rejected(baseConfidence, reason) ==
    [confidence |-> baseConfidence, shouldProceed |-> FALSE, rejectionReason |-> reason]

\* Variant: the volume rule is tried before the counter-trend rule.
ValidatedConfidenceVolumeFirst(baseConfidence, volumeRatio, adxValue, trendAlignment, rsiNeutral, hasVolumeDivergence) ==
    IF baseConfidence < 80
    THEN Rejected(baseConfidence, ReasonMinConfidence)
    ELSE IF RatioBelowThreshold(volumeRatio) /\ baseConfidence < 85
    THEN Rejected(baseConfidence, ReasonLowVolume)
    ELSE IF ~trendAlignment /\ baseConfidence < 82
    THEN Rejected(baseConfidence, ReasonTrendConflict)
    ELSE IF hasVolumeDivergence /\ baseConfidence < 85
    THEN Rejected(baseConfidence, ReasonDivergence)
    ELSE IF rsiNeutral /\ baseConfidence < 80
    THEN Rejected(baseConfidence, ReasonRsiNeutral)
    ELSE IF adxValue < 15
    THEN Rejected(baseConfidence, ReasonRanging)
    ELSE [confidence |-> Min(98, baseConfidence),
          shouldProceed |-> TRUE,
          rejectionReason |-> NoReason]

\* Variant: the ranging rule has a confidence override like rules 2 to 4.
ValidatedConfidenceAdxOverride(baseConfidence, volumeRatio, adxValue, trendAlignment, rsiNeutral, hasVolumeDivergence) ==
    IF baseConfidence < 80
    THEN Rejected(baseConfidence, ReasonMinConfidence)
    ELSE IF ~trendAlignment /\ baseConfidence < 82
    THEN Rejected(baseConfidence, ReasonTrendConflict)
    ELSE IF RatioBelowThreshold(volumeRatio) /\ baseConfidence < 85
    THEN Rejected(baseConfidence, ReasonLowVolume)
    ELSE IF hasVolumeDivergence /\ baseConfidence < 85
    THEN Rejected(baseConfidence, ReasonDivergence)
    ELSE IF rsiNeutral /\ baseConfidence < 80
    THEN Rejected(baseConfidence, ReasonRsiNeutral)
    ELSE IF adxValue < 15 /\ baseConfidence < 90
    THEN Rejected(baseConfidence, ReasonRanging)
    ELSE [confidence |-> Min(98, baseConfidence),
          shouldProceed |-> TRUE,
          rejectionReason |-> NoReason]

\* Variant: a rejection hides the computed confidence, an acceptance does
\* not clamp it.
ValidatedConfidenceZeroed(baseConfidence, volumeRatio, adxValue, trendAlignment, rsiNeutral, hasVolumeDivergence) ==
    IF baseConfidence < 80
    THEN Rejected(0, ReasonMinConfidence)
    ELSE IF ~trendAlignment /\ baseConfidence < 82
    THEN Rejected(0, ReasonTrendConflict)
    ELSE IF RatioBelowThreshold(volumeRatio) /\ baseConfidence < 85
    THEN Rejected(0, ReasonLowVolume)
    ELSE IF hasVolumeDivergence /\ baseConfidence < 85
    THEN Rejected(0, ReasonDivergence)
    ELSE IF rsiNeutral /\ baseConfidence < 80
    THEN Rejected(0, ReasonRsiNeutral)
    ELSE IF adxValue < 15
    THEN Rejected(0, ReasonRanging)
    ELSE [confidence |-> baseConfidence,
          shouldProceed |-> TRUE,
          rejectionReason |-> NoReason]

\* Variant: rule 5 has the override threshold of rules 3 and 4 (85).
ValidatedConfidenceRsiLive(baseConfidence, volumeRatio, adxValue, trendAlignment, rsiNeutral, hasVolumeDivergence) ==
    IF baseConfidence < 80
    THEN Rejected(baseConfidence, ReasonMinConfidence)
    ELSE IF ~trendAlignment /\ baseConfidence < 82
    THEN Rejected(baseConfidence, ReasonTrendConflict)
    ELSE IF RatioBelowThreshold(volumeRatio) /\ baseConfidence < 85
    THEN Rejected(baseConfidence, ReasonLowVolume)
    ELSE IF hasVolumeDivergence /\ baseConfidence < 85
    THEN Rejected(baseConfidence, ReasonDivergence)
    ELSE IF rsiNeutral /\ baseConfidence < 85
    THEN Rejected(baseConfidence, ReasonRsiNeutral)
    ELSE IF adxValue < 15
    THEN Rejected(baseConfidence, ReasonRanging)
    ELSE [confidence |-> Min(98, baseConfidence),
          shouldProceed |-> TRUE,
          rejectionReason |-> NoReason]

calculateValidatedConfidence(baseConfidence, volumeRatio, adxValue, trendAlignment, rsiNeutral, hasVolumeDivergence) ==
    \* Rule 1: minimum confidence threshold
    IF baseConfidence < 80
    THEN Rejected(baseConfidence, ReasonMinConfidence)
    \* Rule 2: trend alignment
    ELSE IF ~trendAlignment /\ baseConfidence < 82
    THEN Rejected(baseConfidence, ReasonTrendConflict)
    \* Rule 3: volume confirmation
    ELSE IF RatioBelowThreshold(volumeRatio) /\ baseConfidence < 85
    THEN Rejected(baseConfidence, ReasonLowVolume)
    \* Rule 4: volume divergence
    ELSE IF hasVolumeDivergence /\ baseConfidence < 85
    THEN Rejected(baseConfidence, ReasonDivergence)
    \* Rule 5: RSI neutral zone
    ELSE IF rsiNeutral /\ baseConfidence < 80
    THEN Rejected(baseConfidence, ReasonRsiNeutral)
    \* Rule 6: ADX < 15 = ranging market
    ELSE IF adxValue < 15
    THEN Rejected(baseConfidence, ReasonRanging)
    \* all checks passed or overridden by high confidence
    ELSE [confidence |-> Min(98, baseConfidence),
          shouldProceed |-> TRUE,
          rejectionReason |-> NoReason]

(***************************************************************************)
(* computeFallbackTradeTargets and normalizeTradeTargets                   *)
(***************************************************************************)
\* Variant: no floor on the volatility.
SafeAtrNoFloor(currentPrice, atr) == Abs(atr)

\* safeAtr = Math.max(Math.abs(atr), Math.abs(currentPrice) * 0.002)
SafeAtr(currentPrice, atr) == Max(Abs(atr), (Abs(currentPrice) * 2) \div 1000)

computeFallbackTradeTargets(direction, currentPrice, atr) ==
    LET safeAtr == SafeAtr(currentPrice, atr)
        entryBand == safeAtr \div 4
    IN  IF direction = "UP"
        THEN LET entryLow == currentPrice - entryBand
                 entryHigh == currentPrice + entryBand \div 2
             IN  [entry |-> [low |-> Min(entryLow, entryHigh),
                             high |-> Max(entryLow, entryHigh)],
                  target |-> [low |-> currentPrice + (safeAtr * 3) \div 2,
                              high |-> currentPrice + (safeAtr * 12) \div 5],
                  stop |-> entryLow - (safeAtr * 21) \div 20]
        ELSE LET entryLow == currentPrice - entryBand \div 2
                 entryHigh == currentPrice + entryBand
             IN  [entry |-> [low |-> Min(entryLow, entryHigh),
                             high |-> Max(entryLow, entryHigh)],
                  target |-> [low |-> currentPrice - (safeAtr * 12) \div 5,
                              high |-> currentPrice - (safeAtr * 3) \div 2],
                  stop |-> entryHigh + (safeAtr * 21) \div 20]

\* The five numeric fields of a candidate.
TargetFields == {"stop", "entry.low", "entry.high", "target.low", "target.high"}

\* A candidate as the oracle may supply it.  shape is "absent" (undefined or
\* null), "notObject", "noEntry", "noTarget" or "object"; nonFinite is the set
\* of numeric fields that are missing, NaN, infinite or not of type number.
Candidate(shape, nonFinite, entryLow, entryHigh, targetLow, targetHigh, stop) ==
    [shape |-> shape, nonFinite |-> nonFinite,
     entry |-> [low |-> entryLow, high |-> entryHigh],
     target |-> [low |-> targetLow, high |-> targetHigh],
     stop |-> stop]

AbsentCandidate == Candidate("absent", {}, 0, 0, 0, 0, 0)

Null == [isNull |-> TRUE]

IsNull(x) == "isNull" \in DOMAIN x

\* Variant: the stop is not among the fields checked.
isFiniteNumberButStop(t, field) == field = "stop" \/ field \notin t.nonFinite

\* isFiniteNumber(t.<field>)
isFiniteNumber(t, field) == field \notin t.nonFinite

\* Variant: a target on the wrong side is repaired in place, like the stop.
normalizeRepairsTarget(maybeTargets, direction, currentPrice, atr) ==
    IF maybeTargets.shape \in {"absent", "notObject"}
    THEN Null
    ELSE IF \/ maybeTargets.shape = "noEntry"
            \/ maybeTargets.shape = "noTarget"
            \/ ~isFiniteNumber(maybeTargets, "stop")
            \/ ~isFiniteNumber(maybeTargets, "entry.low")
            \/ ~isFiniteNumber(maybeTargets, "entry.high")
            \/ ~isFiniteNumber(maybeTargets, "target.low")
            \/ ~isFiniteNumber(maybeTargets, "target.high")
    THEN Null
    ELSE LET t == maybeTargets
             entryLow == Min(t.entry.low, t.entry.high)
             entryHigh == Max(t.entry.low, t.entry.high)
             targetLow == Min(t.target.low, t.target.high)
             targetHigh == Max(t.target.low, t.target.high)
             fallback == computeFallbackTradeTargets(direction, currentPrice, atr)
             stop == IF direction = "UP"
                     THEN IF ~(t.stop < entryLow) THEN fallback.stop ELSE t.stop
                     ELSE IF ~(t.stop > entryHigh) THEN fallback.stop ELSE t.stop
         IN  IF direction = "UP" /\ ~(targetHigh > entryHigh)
             THEN [entry |-> [low |-> entryLow, high |-> entryHigh],
                   target |-> fallback.target, stop |-> stop]
             ELSE IF direction # "UP" /\ ~(targetLow < entryLow)
             THEN [entry |-> [low |-> entryLow, high |-> entryHigh],
                   target |-> fallback.target, stop |-> stop]
             ELSE [entry |-> [low |-> entryLow, high |-> entryHigh],
                   target |-> [low |-> targetLow, high |-> targetHigh],
                   stop |-> stop]

\* Variant: a stop on the wrong side discards the candidate like a bad target.
normalizeDiscardsOnBadStop(maybeTargets, direction, currentPrice, atr) ==
    IF maybeTargets.shape \in {"absent", "notObject"}
    THEN Null
    ELSE IF \/ maybeTargets.shape = "noEntry"
            \/ maybeTargets.shape = "noTarget"
            \/ ~isFiniteNumber(maybeTargets, "stop")
            \/ ~isFiniteNumber(maybeTargets, "entry.low")
            \/ ~isFiniteNumber(maybeTargets, "entry.high")
            \/ ~isFiniteNumber(maybeTargets, "target.low")
            \/ ~isFiniteNumber(maybeTargets, "target.high")
    THEN Null
    ELSE LET t == maybeTargets
             entryLow == Min(t.entry.low, t.entry.high)
             entryHigh == Max(t.entry.low, t.entry.high)
             targetLow == Min(t.target.low, t.target.high)
             targetHigh == Max(t.target.low, t.target.high)
             fallback == computeFallbackTradeTargets(direction, currentPrice, atr)
             stop == IF direction = "UP"
                     THEN IF ~(t.stop < entryLow) THEN fallback.stop ELSE t.stop
                     ELSE IF ~(t.stop > entryHigh) THEN fallback.stop ELSE t.stop
         IN  IF direction = "UP" /\ (~(t.stop < entryLow) \/ ~(targetHigh > entryHigh))
             THEN fallback
             ELSE IF direction # "UP" /\ (~(t.stop > entryHigh) \/ ~(targetLow < entryLow))
             THEN fallback
             ELSE [entry |-> [low |-> entryLow, high |-> entryHigh],
                   target |-> [low |-> targetLow, high |-> targetHigh],
                   stop |-> stop]

normalizeTradeTargets(maybeTargets, direction, currentPrice, atr) ==
    IF maybeTargets.shape \in {"absent", "notObject"}
    THEN Null
    ELSE IF \/ maybeTargets.shape = "noEntry"
            \/ maybeTargets.shape = "noTarget"
            \/ ~isFiniteNumber(maybeTargets, "stop")
            \/ ~isFiniteNumber(maybeTargets, "entry.low")
            \/ ~isFiniteNumber(maybeTargets, "entry.high")
            \/ ~isFiniteNumber(maybeTargets, "target.low")
            \/ ~isFiniteNumber(maybeTargets, "target.high")
    THEN Null
    ELSE LET t == maybeTargets
             entryLow == Min(t.entry.low, t.entry.high)
             entryHigh == Max(t.entry.low, t.entry.high)
             targetLow == Min(t.target.low, t.target.high)
             targetHigh == Max(t.target.low, t.target.high)
             fallback == computeFallbackTradeTargets(direction, currentPrice, atr)
             stop == IF direction = "UP"
                     THEN IF ~(t.stop < entryLow) THEN fallback.stop ELSE t.stop
                     ELSE IF ~(t.stop > entryHigh) THEN fallback.stop ELSE t.stop
         IN  IF direction = "UP" /\ ~(targetHigh > entryHigh)
             THEN fallback
             ELSE IF direction # "UP" /\ ~(targetLow < entryLow)
             THEN fallback
             ELSE [entry |-> [low |-> entryLow, high |-> entryHigh],
                   target |-> [low |-> targetLow, high |-> targetHigh],
                   stop |-> stop]

(***************************************************************************)
(* Supporting predicates of the validation chain                           *)
(***************************************************************************)
\* ratio = volumeMA > 0 ? currentVolume / volumeMA : 1; passes = ratio >= 1.1
checkVolumeConfirmation(currentVolume, volumeMA) ==
    LET ratio == IF volumeMA > 0
                 THEN [num |-> currentVolume, den |-> volumeMA]
                 ELSE [num |-> 1, den |-> 1]
    IN  [passes |-> ~RatioBelowThreshold(ratio), ratio |-> ratio]

\* checkVolumeDivergence whose DOWN branch does not look at the volume
checkVolumeDivergenceAnyVolume(candles, direction) ==
    IF candles.length < 5
    THEN [hasDivergence |-> FALSE, reason |-> "Not enough data for divergence check"]
    ELSE IF /\ direction = "UP"
            /\ candles.lastClose > candles.prevClose
            /\ candles.lastVolume < candles.prevVolume
    THEN [hasDivergence |-> TRUE,
          reason |-> "Weak Breakout: Price rising on declining volume"]
    ELSE IF /\ direction = "DOWN"
            /\ candles.lastClose < candles.prevClose
    THEN [hasDivergence |-> TRUE,
          reason |-> "Weak Breakdown: Price falling on declining volume"]
    ELSE [hasDivergence |-> FALSE, reason |-> "No volume divergence detected"]

\* candles: the length of the array and the close and volume of its last
\* two candles
checkVolumeDivergence(candles, direction) ==
    IF candles.length < 5
    THEN [hasDivergence |-> FALSE, reason |-> "Not enough data for divergence check"]
    ELSE IF /\ direction = "UP"
            /\ candles.lastClose > candles.prevClose
            /\ candles.lastVolume < candles.prevVolume
    THEN [hasDivergence |-> TRUE,
          reason |-> "Weak Breakout: Price rising on declining volume"]
    ELSE IF /\ direction = "DOWN"
            /\ candles.lastClose < candles.prevClose
            /\ candles.lastVolume < candles.prevVolume
    THEN [hasDivergence |-> TRUE,
          reason |-> "Weak Breakdown: Price falling on declining volume"]
    ELSE [hasDivergence |-> FALSE, reason |-> "No volume divergence detected"]

checkRSINeutralZone(rsi) == [isNeutral |-> rsi >= 48 /\ rsi <= 52]

\* checkTrendAlignment comparing the entry timeframe's own bias with the anchor
checkTrendAlignmentByEntryBias(entryTrendBias, anchorTrendBias, entryDirection) ==
    IF anchorTrendBias = "NEUTRAL"
    THEN [aligned |-> TRUE,
          reason |-> "Anchor trend neutral - proceeding with caution"]
    ELSE IF entryTrendBias = "NEUTRAL"
    THEN [aligned |-> TRUE, reason |-> "Entry direction neutral - proceeding"]
    ELSE IF entryTrendBias = anchorTrendBias
    THEN [aligned |-> TRUE, reason |-> "Trend aligned"]
    ELSE [aligned |-> FALSE, reason |-> "Trend Conflict"]

checkTrendAlignment(entryTrendBias, anchorTrendBias, entryDirection) ==
    LET entryBiasFromDirection ==
            IF entryDirection = "UP" THEN "BULLISH"
            ELSE IF entryDirection = "DOWN" THEN "BEARISH"
            ELSE "NEUTRAL"
    IN  IF anchorTrendBias = "NEUTRAL"
        THEN [aligned |-> TRUE,
              reason |-> "Anchor trend neutral - proceeding with caution"]
        ELSE IF entryBiasFromDirection = "NEUTRAL"
        THEN [aligned |-> TRUE, reason |-> "Entry direction neutral - proceeding"]
        ELSE IF entryBiasFromDirection = anchorTrendBias
        THEN [aligned |-> TRUE, reason |-> "Trend aligned"]
        ELSE [aligned |-> FALSE, reason |-> "Trend Conflict"]

NoAnchorCheck == [aligned |-> TRUE, reason |-> "No anchor check performed"]

(***************************************************************************)
(* Values of the run                                                       *)
(***************************************************************************)
NotYet == [notYet |-> TRUE]
Undefined == [undefined |-> TRUE]
NoPayload == [none |-> TRUE]

IsUndefined(x) == "undefined" \in DOMAIN x

Event(stage, progress, status, data) ==
    [stage |-> stage, progress |-> progress, status |-> status, data |-> data]

InProgress(stage, progress) == Event(stage, progress, "in_progress", NoPayload)
Complete(stage) == Event(stage, 100, "complete", NoPayload)

\* what a client reads of a final_verdict payload or of a Prediction;
\* confidenceIsNaN: the confidence is NaN (and the confidence field 0);
\* tradeTargets is Undefined, riskFactors <<>> and analysis NoText when the
\* object has no such property; analysis is the object's explanatory text
\* (explanation, message, analysis or rationale)
Verdict(direction, confidence, tradeTargets, riskFactors, analysis) ==
    [direction |-> direction, confidence |-> confidence,
     confidenceIsNaN |-> FALSE,
     tradeTargets |-> tradeTargets, riskFactors |-> riskFactors,
     analysis |-> analysis]

MsgDataUnavailable == "Market data service temporarily unavailable. Cannot perform technical analysis. Please try again in a moment when live market data is restored."
MsgUnclear == "Market conditions unclear. Waiting for stronger setup."
MsgInsufficient == "Insufficient confidence for trade signal"
NoText == "undefined"
OracleRationale == "geminiDecision.rationale"
OracleRiskFactors == <<"geminiDecision.riskFactors">>

(***************************************************************************)
(* getGeminiPrediction and callGeminiModelStreaming                        *)
(***************************************************************************)
\* Variant: the chain starts with the flash model.
GeminiModelsFlashFirst ==
    <<"gemini-flash-latest", "gemini-2.5-pro", "gemini-3-pro-preview">>

GeminiModels == <<"gemini-3-pro-preview", "gemini-2.5-pro", "gemini-flash-latest">>

\* the outcomes of one callGeminiModelStreaming: a decision, a throw (request
\* or stream failure, no JSON text, JSON.parse failure), or neither: the
\* request or the "for await" over the stream never completes, and nothing
\* in the call or around it bounds the wait
AttemptOutcomes ==
    {"success", "network_error", "empty_response", "unparsable_json",
     "stream_never_ends"}

\* decision.confidence = Math.round(Math.max(90, Math.min(98, confidence)));
\* a confidence that is missing or no number stays NaN
ClampConfidence(decision) ==
    IF decision.confidenceIsNaN THEN decision
    ELSE [decision EXCEPT !.confidence = Max(90, Min(98, decision.confidence))]

\* Variant: the last catch handler lets the error go.
geminiCatchRethrows(attempt) ==
    IF attempt < Len(GeminiModels) THEN "next_model" ELSE "throw"

\* the nested catch handlers: the first two call the next model, the last
\* returns null
geminiCatch(attempt) ==
    IF attempt < Len(GeminiModels) THEN "next_model" ELSE "return_null"

\* the call of getGeminiPrediction: attempt is the model to call next, calls
\* the models called so far, failed the number of calls that threw
GeminiIdle ==
    [status |-> "idle", attempt |-> 0, calls |-> <<>>, failed |-> 0,
     decision |-> Null]
GeminiCalled ==
    [status |-> "running", attempt |-> 1, calls |-> <<>>, failed |-> 0,
     decision |-> Null]

\* one callGeminiModelStreaming of the fallback chain, with outcome o and,
\* on success, the parsed JSON raw
GeminiAttempt(g, o, raw) ==
    LET called == [g EXCEPT !.calls = Append(g.calls, GeminiModels[g.attempt])]
    IN  IF o = "stream_never_ends"
        THEN [called EXCEPT !.status = "blocked"]
        ELSE IF o = "success"
        THEN [called EXCEPT !.status = "returned", !.decision = ClampConfidence(raw)]
        ELSE IF geminiCatch(g.attempt) = "next_model"
        THEN [called EXCEPT !.attempt = g.attempt + 1, !.failed = g.failed + 1]
        ELSE IF geminiCatch(g.attempt) = "return_null"
        THEN [called EXCEPT !.status = "returned", !.decision = Null,
                            !.failed = g.failed + 1]
        ELSE [called EXCEPT !.status = "thrown", !.failed = g.failed + 1]

(***************************************************************************)
(* generateProgressivePrediction: weighted signals and their aggregation   *)
(***************************************************************************)
\* weight is in tenths (12 for 1.2)
WeightedSignal(category, direction, strength, weight) ==
    [category |-> category, direction |-> direction, strength |-> strength,
     weight |-> weight]

\* bbPosition = (currentPrice - bbLower) / (bbUpper - bbLower), compared
\* without dividing.  A zero width gives -Infinity, NaN or +Infinity.
BbPositionBelow(price, lower, upper) ==
    IF upper - lower > 0 THEN 10 * (price - lower) < upper - lower
    ELSE IF upper - lower = 0 THEN price < lower
    ELSE 10 * (price - lower) > upper - lower

BbPositionAbove(price, lower, upper) ==
    IF upper - lower > 0 THEN 10 * (price - lower) > 9 * (upper - lower)
    ELSE IF upper - lower = 0 THEN price > lower
    ELSE 10 * (price - lower) < 9 * (upper - lower)

\* the value of bbPosition: the quotient's sign decides which of the
\* non-finite values a zero divisor gives (0 / 0 is NaN)
bbPosition(price, lower, upper) ==
    [dividesByZero |-> upper - lower = 0,
     value |-> IF upper - lower # 0 THEN "finite"
               ELSE IF price - lower > 0 THEN "Infinity"
               ELSE IF price - lower < 0 THEN "-Infinity"
               ELSE "NaN"]

\* the array "signals".  macd.histogram is in units of 0.0001, roc and the
\* distances to support and resistance in units of 0.1
progressiveSignals(md, ind) ==
    LET k == ind.stochastic.k
        d == ind.stochastic.d
        below == BbPositionBelow(md.currentPrice, ind.bollingerBands.lower,
                                 ind.bollingerBands.upper)
        above == BbPositionAbove(md.currentPrice, ind.bollingerBands.lower,
                                 ind.bollingerBands.upper)
        momUp == ind.momentum > 3 /\ ind.roc > 30
        momDown == ind.momentum < -3 /\ ind.roc < -30
        nearSupport == ind.supportResistance.distanceToSupport < 15
        nearResistance == ind.supportResistance.distanceToResistance < 15
    IN  << WeightedSignal("MOMENTUM",
               IF ind.rsi < 30 THEN "UP" ELSE IF ind.rsi > 70 THEN "DOWN"
               ELSE "NEUTRAL",
               IF ind.rsi < 30 THEN 85 ELSE IF ind.rsi > 70 THEN 85 ELSE 50,
               12),
           WeightedSignal("MOMENTUM",
               IF k < 20 /\ d < 20 THEN "UP"
               ELSE IF k > 80 /\ d > 80 THEN "DOWN" ELSE "NEUTRAL",
               IF (k < 20 /\ d < 20) \/ (k > 80 /\ d > 80) THEN 90 ELSE 50,
               12),
           WeightedSignal("TREND",
               IF ind.macd.histogram > 0 THEN "UP" ELSE "DOWN",
               IF Abs(ind.macd.histogram) > 10 THEN 75 ELSE 50,
               14),
           WeightedSignal("TREND",
               IF md.currentPrice > ind.movingAverages.sma50 THEN "UP" ELSE "DOWN",
               65,
               13),
           WeightedSignal("VOLATILITY",
               IF below THEN "UP" ELSE IF above THEN "DOWN" ELSE "NEUTRAL",
               IF below \/ above THEN 75 ELSE 50,
               11),
           WeightedSignal("TREND",
               IF ind.adx.value > 50 /\ ind.adx.plusDI > ind.adx.minusDI THEN "UP"
               ELSE IF ind.adx.value > 50 /\ ind.adx.minusDI > ind.adx.plusDI
               THEN "DOWN" ELSE "NEUTRAL",
               IF ind.adx.value > 50 THEN 80
               ELSE IF ind.adx.value > 30 THEN 60 ELSE 30,
               14),
           WeightedSignal("MOMENTUM",
               IF momUp THEN "UP" ELSE IF momDown THEN "DOWN" ELSE "NEUTRAL",
               IF momUp \/ momDown THEN 85 ELSE 50,
               12),
           WeightedSignal("Price Action",
               IF nearSupport THEN "UP" ELSE IF nearResistance THEN "DOWN"
               ELSE "NEUTRAL",
               IF nearSupport \/ nearResistance THEN 65 ELSE 50,
               11) >>

\* sum of strength * weight, in tenths
RECURSIVE SumWeighted(_)
SumWeighted(list) ==
    IF list = <<>> THEN 0
    ELSE Head(list).strength * Head(list).weight + SumWeighted(Tail(list))

SignalIsUp(sig) == sig.direction = "UP"
SignalIsDown(sig) == sig.direction = "DOWN"

\* Variant: a tie of the scores goes to UP.
ScoreDirectionUpOnTie(upScore, downScore) ==
    IF upScore >= downScore THEN "UP" ELSE "DOWN"

\* upScore > downScore ? "UP" : "DOWN"
ScoreDirection(upScore, downScore) ==
    IF upScore > downScore THEN "UP" ELSE "DOWN"

\* stage 3 of generateProgressivePrediction: the scores are in tenths,
\* totalSignals counts the UP and DOWN signals, signalAlignment is the
\* fraction num / den and direction is the direction of the
\* signal_aggregation 'complete' event
AggregateProgressive(signals) ==
    LET upSignals == SelectSeq(signals, SignalIsUp)
        downSignals == SelectSeq(signals, SignalIsDown)
        upScore == SumWeighted(upSignals)
        downScore == SumWeighted(downSignals)
        totalSignals == Len(upSignals) + Len(downSignals)
    IN  [upCount |-> Len(upSignals),
         downCount |-> Len(downSignals),
         upScore |-> upScore,
         downScore |-> downScore,
         totalSignals |-> totalSignals,
         signalAlignment |->
             IF totalSignals > 0
             THEN [num |-> 100 * (IF upScore > downScore THEN Len(upSignals)
                                  ELSE Len(downSignals)),
                   den |-> totalSignals]
             ELSE [num |-> 0, den |-> 1],
         direction |-> ScoreDirection(upScore, downScore)]

(***************************************************************************)
(* generateTransparentPrediction: indicator list, aggregation, verdict     *)
(***************************************************************************)
Indicator(name, signal, strength) ==
    [name |-> name, signal |-> signal, strength |-> strength]

\* macd.histogram is in units of 0.0001, roc in units of 0.1
technicalIndicatorsList(md, ind) ==
    << Indicator("RSI",
           IF ind.rsi < 30 THEN "UP" ELSE IF ind.rsi > 70 THEN "DOWN" ELSE "NEUTRAL",
           IF ind.rsi < 30 THEN 85 ELSE IF ind.rsi > 70 THEN 85 ELSE 50),
       Indicator("Stochastic K/D",
           IF ind.stochastic.k < 20 THEN "UP"
           ELSE IF ind.stochastic.k > 80 THEN "DOWN" ELSE "NEUTRAL",
           IF ind.stochastic.k < 20 THEN 90
           ELSE IF ind.stochastic.k > 80 THEN 90 ELSE 50),
       Indicator("MACD",
           IF ind.macd.histogram > 0 THEN "UP" ELSE "DOWN",
           IF Abs(ind.macd.histogram) > 10 THEN 75 ELSE 50),
       Indicator("ADX",
           IF ind.adx.plusDI > ind.adx.minusDI THEN "UP" ELSE "DOWN",
           IF ind.adx.value > 40 THEN 85 ELSE IF ind.adx.value > 25 THEN 70 ELSE 50),
       Indicator("SMA 20/50/200",
           IF md.currentPrice > ind.movingAverages.sma50 THEN "UP" ELSE "DOWN",
           67),
       Indicator("Bollinger Bands",
           IF md.currentPrice < ind.bollingerBands.lower THEN "UP"
           ELSE IF md.currentPrice > ind.bollingerBands.upper THEN "DOWN"
           ELSE "NEUTRAL",
           IF md.currentPrice < ind.bollingerBands.lower THEN 75
           ELSE IF md.currentPrice > ind.bollingerBands.upper THEN 75 ELSE 50),
       Indicator("Volume Trend",
           IF md.volumeChange24h > 10 THEN "UP" ELSE "NEUTRAL",
           IF Abs(md.volumeChange24h) > 15 THEN 80 ELSE 60),
       Indicator("Momentum",
           IF ind.momentum > 0 THEN "UP" ELSE "DOWN",
           IF Abs(ind.momentum) > 2 THEN 70 ELSE 50),
       Indicator("ROC",
           IF ind.roc > 0 THEN "UP" ELSE "DOWN",
           IF Abs(ind.roc) > 15 THEN 70 ELSE 50) >>

RECURSIVE SumStrength(_)
SumStrength(list) ==
    IF list = <<>> THEN 0 ELSE Head(list).strength + SumStrength(Tail(list))

IsUp(i) == i.signal = "UP"
IsDown(i) == i.signal = "DOWN"

\* upSignals, downSignals, upScore, downScore, totalSignals and
\* signalAlignment of the run.  totalSignals is the length of the indicator
\* list (9).  signalAlignment = Math.max(upCount, downCount) / totalSignals
\* * 100 is kept as the fraction num / den.
Aggregate(list) ==
    [upCount |-> Len(SelectSeq(list, IsUp)),
     downCount |-> Len(SelectSeq(list, IsDown)),
     upScore |-> SumStrength(SelectSeq(list, IsUp)),
     downScore |-> SumStrength(SelectSeq(list, IsDown)),
     totalSignals |-> Len(list),
     signalAlignment |->
         [num |-> 100 * Max(Len(SelectSeq(list, IsUp)),
                            Len(SelectSeq(list, IsDown))),
          den |-> Len(list)]]

\* Math.round(Math.min(95, signalAlignment * 0.8 + trendStrength * 0.2)):
\* the sum is n / d, rounded half up
InternalConfidence(agg, trendStrength) ==
    LET n == 4 * agg.signalAlignment.num + agg.signalAlignment.den * trendStrength
        d == 5 * agg.signalAlignment.den
    IN  IF n >= 95 * d THEN 95 ELSE (2 * n + d) \div (2 * d)

\* upScore > downScore ? "UP" : "DOWN"
InternalDirection(agg) == ScoreDirection(agg.upScore, agg.downScore)

\* Variant: a rejected setup keeps the direction that went into the chain.
RejectionVerdictKeepsDirection(direction, validationResult) ==
    Verdict(direction, validationResult.confidence, Undefined,
            <<validationResult.rejectionReason>>,
            validationResult.rejectionReason)

\* the branch "if (!validationResult.shouldProceed)": direction = "NEUTRAL",
\* confidence = validationResult.confidence, tradeTargets = undefined,
\* riskFactors = [rejectionReason], explanation built from rejectionReason
RejectionVerdict(direction, validationResult) ==
    Verdict("NEUTRAL", validationResult.confidence, Undefined,
            <<validationResult.rejectionReason>>,
            validationResult.rejectionReason)

\* Variant: targets are resolved for a NEUTRAL call as well.
ProceedTargetsForAnyDirection(direction, candidate, currentPrice, atr) ==
    LET normalized == normalizeTradeTargets(candidate, direction, currentPrice, atr)
    IN  IF ~IsNull(normalized) THEN normalized
        ELSE computeFallbackTradeTargets(direction, currentPrice, atr)

\* tradeTargets of the branch that proceeds: undefined for NEUTRAL, else
\* normalizeTradeTargets(...) ?? computeFallbackTradeTargets(...)
ProceedTargets(direction, candidate, currentPrice, atr) ==
    IF direction = "NEUTRAL" THEN Undefined
    ELSE LET normalized == normalizeTradeTargets(candidate, direction,
                                                 currentPrice, atr)
         IN  IF ~IsNull(normalized) THEN normalized
             ELSE computeFallbackTradeTargets(direction, currentPrice, atr)

\* the steps of generateTransparentPrediction from the choice of direction
\* and confidence to the assembled verdict
TransparentVerdict(md, ind, anchor, geminiDecision) ==
    LET agg == Aggregate(technicalIndicatorsList(md, ind))
        \* geminiDecision?.direction || (upScore > downScore ? "UP" : "DOWN")
        direction ==
            IF ~IsNull(geminiDecision)
            THEN geminiDecision.direction
            ELSE InternalDirection(agg)
        \* geminiDecision?.confidence || Math.round(...)
        confidence ==
            IF ~IsNull(geminiDecision) /\ ~geminiDecision.confidenceIsNaN
               /\ geminiDecision.confidence # 0
            THEN geminiDecision.confidence
            ELSE InternalConfidence(agg, ind.trendStrength)
        currentVolume == IF md.candles.length > 0 THEN md.candles.lastVolume ELSE 0
        volumeConfirmation == checkVolumeConfirmation(currentVolume, ind.volumeMA)
        volumeDivergence == checkVolumeDivergence(md.candles, direction)
        rsiNeutralCheck == checkRSINeutralZone(ind.rsi)
        anchorTrendValidationResult ==
            IF ~IsNull(anchor)
            THEN checkTrendAlignment(ind.trendBias, anchor.trendBias, direction)
            ELSE NoAnchorCheck
        validationArgs ==
            [baseConfidence |-> confidence,
             volumeRatio |-> volumeConfirmation.ratio,
             adxValue |-> ind.adx.value,
             trendAlignment |-> anchorTrendValidationResult.aligned,
             rsiNeutral |-> rsiNeutralCheck.isNeutral,
             hasVolumeDivergence |-> volumeDivergence.hasDivergence]
        validationResult ==
            calculateValidatedConfidence(confidence, volumeConfirmation.ratio,
                ind.adx.value, anchorTrendValidationResult.aligned,
                rsiNeutralCheck.isNeutral, volumeDivergence.hasDivergence)
        candidate == IF IsNull(geminiDecision) THEN AbsentCandidate
                     ELSE geminiDecision.tradeTargets
        verdict ==
            IF ~validationResult.shouldProceed
            THEN RejectionVerdict(direction, validationResult)
            ELSE Verdict(direction, validationResult.confidence,
                         ProceedTargets(direction, candidate,
                                        md.currentPrice, ind.atr),
                         IF ~IsNull(geminiDecision) THEN OracleRiskFactors
                         ELSE << IF volumeDivergence.hasDivergence
                                 THEN volumeDivergence.reason
                                 ELSE "Monitor for volume decrease",
                                 IF ind.atr > 3 * PriceScale
                                 THEN "High volatility - wider stops recommended"
                                 ELSE "Normal volatility range" >>,
                         IF ~IsNull(geminiDecision) THEN OracleRationale
                         ELSE "Strong signal detected")
    IN  [validation |-> [direction |-> direction, args |-> validationArgs,
                         checkTrendAlignmentCalled |-> ~IsNull(anchor),
                         trendCheck |-> anchorTrendValidationResult,
                         result |-> validationResult],
         \* the data of the final_verdict event
         verdict |-> verdict,
         \* the Prediction object: it is built without a tradeTargets property
         prediction |-> [verdict EXCEPT !.tradeTargets = Undefined]]

(***************************************************************************)
(* Inputs of a run: what the collaborators may return                      *)
(***************************************************************************)
\* the current price of every run, in price units
RunPrice == 2 * PriceScale

Candles(length, prevClose, lastClose, prevVolume, lastVolume) ==
    [length |-> length, prevClose |-> prevClose, lastClose |-> lastClose,
     prevVolume |-> prevVolume, lastVolume |-> lastVolume]

CandlesSet ==
    { Candles(200, 10, 11, 10, 11),    \* rising on rising volume
      Candles(200, 10, 11, 12, 11),    \* rising on declining volume
      Candles(200, 11, 10, 12, 11),    \* falling on declining volume
      Candles(4, 10, 11, 12, 11) }     \* too few candles for the divergence check

MarketDataSet ==
    [currentPrice : {RunPrice}, volumeChange24h : {0, 20}, candles : CandlesSet]

\* an indicator snapshot leaning one way: "bullish" has every directional
\* indicator UP, "bearish" has every one DOWN, "flat" has the neutral readings
Snapshot(lean, adxValue, trendStrength, atr, volumeMA) ==
    [rsi |-> CASE lean = "bullish" -> 25 [] lean = "bearish" -> 75 [] OTHER -> 50,
     stochastic |-> [k |-> CASE lean = "bullish" -> 10 [] lean = "bearish" -> 90
                            [] OTHER -> 50],
     macd |-> [histogram |-> CASE lean = "bullish" -> 20 [] lean = "bearish" -> -20
                              [] OTHER -> 0],
     adx |-> [value |-> adxValue,
              plusDI |-> IF lean = "bullish" THEN 30 ELSE 10,
              minusDI |-> IF lean = "bearish" THEN 30 ELSE 10],
     movingAverages |->
         [sma50 |-> CASE lean = "bullish" -> RunPrice - PriceScale
                      [] lean = "bearish" -> RunPrice + PriceScale
                      [] OTHER -> RunPrice],
     bollingerBands |->
         [lower |-> CASE lean = "bullish" -> RunPrice + PriceScale
                      [] lean = "bearish" -> RunPrice - 2 * PriceScale
                      [] OTHER -> RunPrice - PriceScale,
          upper |-> CASE lean = "bullish" -> RunPrice + 2 * PriceScale
                      [] lean = "bearish" -> RunPrice - PriceScale
                      [] OTHER -> RunPrice + PriceScale],
     momentum |-> CASE lean = "bullish" -> 3 [] lean = "bearish" -> -3 [] OTHER -> 0,
     roc |-> CASE lean = "bullish" -> 20 [] lean = "bearish" -> -20 [] OTHER -> 0,
     volumeMA |-> volumeMA,
     trendStrength |-> trendStrength,
     atr |-> atr,
     trendBias |-> CASE lean = "bullish" -> "BULLISH" [] lean = "bearish" -> "BEARISH"
                     [] OTHER -> "NEUTRAL"]

Leans == {"bullish", "bearish", "flat"}
RunAdxValues == {14, 45}
TrendStrengths == {0, 60}
RunAtrValues == {50 * AtrStep}
VolumeMAs == {0, 10}

IndicatorsSet ==
    {Snapshot(l, x, ts, a, v) :
        l \in Leans, x \in RunAdxValues, ts \in TrendStrengths,
        a \in RunAtrValues, v \in VolumeMAs}

TrendBiases == {"BULLISH", "BEARISH", "NEUTRAL"}

\* the anchor timeframe's indicators: only trendBias is read
AnchorSet == {[trendBias |-> b] : b \in TrendBiases}

\* trade targets as the oracle may send them, around RunPrice
RunCandidates ==
    { AbsentCandidate,
      Candidate("object", {"stop"}, RunPrice, RunPrice, 3 * PriceScale,
                3 * PriceScale, PriceScale),
      \* a long plan and a short plan that satisfy their invariants
      Candidate("object", {}, RunPrice, RunPrice, 3 * PriceScale,
                3 * PriceScale, PriceScale),
      Candidate("object", {}, RunPrice, RunPrice, PriceScale, PriceScale,
                3 * PriceScale),
      \* an entry far below the price with the stop above it
      Candidate("object", {}, PriceScale, PriceScale, 3 * PriceScale,
                3 * PriceScale, RunPrice) }

\* the JSON of a successful model call.  confidenceIsNaN stands for a
\* confidence that is missing or no number.
\* hasThinking: thought parts were streamed, so that thinkingProcess is set;
\* the decisions with thoughts are drawn without trade targets.
RawDecisions ==
    [direction : {"UP", "DOWN", "NEUTRAL"},
     confidence : {50, 120},
     confidenceIsNaN : {FALSE},
     hasThinking : {FALSE},
     tradeTargets : RunCandidates]
    \cup
    [direction : {"UP", "DOWN", "NEUTRAL"},
     confidence : {0},
     confidenceIsNaN : {TRUE},
     hasThinking : {FALSE},
     tradeTargets : RunCandidates]
    \cup
    [direction : {"UP", "DOWN", "NEUTRAL"},
     confidence : {50, 120},
     confidenceIsNaN : {FALSE},
     hasThinking : {TRUE},
     tradeTargets : {AbsentCandidate}]

EntryPoints ==
    {[name |-> "generateProgressivePrediction", waitForAiThinkingComplete |-> FALSE]}
    \cup
    {[name |-> "generateTransparentPrediction", waitForAiThinkingComplete |-> w] :
        w \in BOOLEAN}

Running == [kind |-> "running"]
Threw == [kind |-> "thrown"]
ReturnedPrediction(prediction) == [kind |-> "returned", prediction |-> prediction]

(***************************************************************************)
(* The run: both entry points                                              *)
(***************************************************************************)
\* waitForAiThinkingComplete: how often the run has called it, and the
\* promise it returned: "pending", then "resolved" or "rejected", or "never"
\* when the promise is never settled
CallbackIdle == [awaited |-> 0, promise |-> "none"]
PromiseOutcomes == {"resolved", "rejected", "never"}

RunIdle ==
    /\ entryPoint = [name |-> "none", waitForAiThinkingComplete |-> FALSE]
    /\ pc = "idle"
    /\ marketData = NotYet
    /\ indicators = NotYet
    /\ anchorIndicators = Null
    /\ gemini = GeminiIdle
    /\ events = <<>>
    /\ validation = NotYet
    /\ thinkingCallback = CallbackIdle
    /\ outcome = Running

Init ==
    /\ op = "none" /\ args = NotYet /\ ret = NotYet
    /\ entryPoint \in EntryPoints
    /\ pc = "start"
    /\ marketData = NotYet
    /\ indicators = NotYet
    /\ anchorIndicators = Null
    /\ gemini = GeminiIdle
    /\ events = <<>>
    /\ validation = NotYet
    /\ thinkingCallback = CallbackIdle
    /\ outcome = Running

IsProgressive == entryPoint.name = "generateProgressivePrediction"
IsTransparent == entryPoint.name = "generateTransparentPrediction"

\* ---- getGeminiPrediction, called by either entry point ----
CallGeminiModel ==
    /\ pc = "gemini"
    /\ gemini.status = "running"
    /\ \E o \in AttemptOutcomes, raw \in RawDecisions :
         gemini' = GeminiAttempt(gemini, o, raw)
    /\ UNCHANGED <<entryPoint, thinkingCallback, pc, marketData, indicators, anchorIndicators,
                   events, validation, outcome>>
    /\ UNCHANGED harnessVars

\* ---- generateProgressivePrediction ----
\* the catch block of generateProgressivePrediction
ProgressiveCatch ==
    /\ events' = events \o
         << Event("final_verdict", 100, "complete",
                  Verdict("NEUTRAL", 0, Undefined, <<"Technical failure">>,
                          "Analysis failed")) >>
    /\ outcome' = ReturnedPrediction(
                      Verdict("NEUTRAL", 0, Undefined, <<>>, MsgDataUnavailable))
    /\ pc' = "done"

P_Start ==
    /\ IsProgressive /\ pc = "start"
    /\ events' = events \o << InProgress("data_collection", 0),
                              InProgress("data_collection", 30) >>
    /\ pc' = "fetch"
    /\ UNCHANGED <<entryPoint, thinkingCallback, marketData, indicators, anchorIndicators, gemini,
                   validation, outcome>>
    /\ UNCHANGED harnessVars

P_FetchOk ==
    /\ IsProgressive /\ pc = "fetch"
    /\ marketData' \in MarketDataSet
    /\ events' = events \o << InProgress("data_collection", 70),
                              Complete("data_collection"),
                              InProgress("technical_calculation", 0) >>
    /\ pc' = "analyze"
    /\ UNCHANGED <<entryPoint, thinkingCallback, indicators, anchorIndicators, gemini, validation,
                   outcome>>
    /\ UNCHANGED harnessVars

P_FetchThrows ==
    /\ IsProgressive /\ pc = "fetch"
    /\ ProgressiveCatch
    /\ UNCHANGED <<entryPoint, thinkingCallback, marketData, indicators, anchorIndicators, gemini,
                   validation>>
    /\ UNCHANGED harnessVars

P_AnalyzeOk ==
    /\ IsProgressive /\ pc = "analyze"
    /\ indicators' \in IndicatorsSet
    /\ events' = events \o << InProgress("technical_calculation", 25),
                              InProgress("technical_calculation", 50),
                              InProgress("technical_calculation", 75),
                              Complete("technical_calculation"),
                              InProgress("signal_aggregation", 0),
                              InProgress("signal_aggregation", 40),
                              InProgress("signal_aggregation", 70),
                              Complete("signal_aggregation"),
                              InProgress("ai_thinking", 0),
                              InProgress("ai_thinking", 30) >>
    /\ gemini' = GeminiCalled
    /\ pc' = "gemini"
    /\ UNCHANGED <<entryPoint, thinkingCallback, marketData, anchorIndicators, validation, outcome>>
    /\ UNCHANGED harnessVars

P_AnalyzeThrows ==
    /\ IsProgressive /\ pc = "analyze"
    /\ ProgressiveCatch
    /\ UNCHANGED <<entryPoint, thinkingCallback, marketData, indicators, anchorIndicators, gemini,
                   validation>>
    /\ UNCHANGED harnessVars

\* what generateProgressivePrediction puts out of geminiDecision.tradeTargets:
\* the object as the oracle sent it
RawTargets(c) ==
    IF c.shape = "absent" THEN Undefined
    ELSE IF c.shape = "object" /\ c.nonFinite = {}
    THEN [entry |-> c.entry, target |-> c.target, stop |-> c.stop]
    ELSE c

\* the data of the final_verdict 'complete' event
ProgressiveVerdict(geminiDecision) ==
    IF ~IsNull(geminiDecision) /\ geminiDecision.direction # "NEUTRAL"
    THEN [Verdict(geminiDecision.direction, geminiDecision.confidence,
                  RawTargets(geminiDecision.tradeTargets),
                  OracleRiskFactors, NoText)
            EXCEPT !.confidenceIsNaN = geminiDecision.confidenceIsNaN]
    ELSE Verdict("NEUTRAL", 0, Undefined, <<"Market uncertainty">>,
                 MsgInsufficient)

\* the returned Prediction
ProgressivePrediction(geminiDecision) ==
    IF ~IsNull(geminiDecision) /\ geminiDecision.direction # "NEUTRAL"
    THEN [Verdict(geminiDecision.direction, geminiDecision.confidence,
                  RawTargets(geminiDecision.tradeTargets),
                  OracleRiskFactors, OracleRationale)
            EXCEPT !.confidenceIsNaN = geminiDecision.confidenceIsNaN]
    ELSE Verdict("NEUTRAL", 0, Undefined, <<>>, MsgUnclear)

P_Verdict ==
    /\ IsProgressive /\ pc = "gemini"
    /\ gemini.status = "returned"
    /\ events' = events \o
         << InProgress("ai_thinking", 70) >> \o
         (IF ~IsNull(gemini.decision) /\ gemini.decision.hasThinking
          THEN << InProgress("ai_thinking", 90) >> ELSE << >>) \o
         << Complete("ai_thinking"),
            InProgress("final_verdict", 0),
            InProgress("final_verdict", 50),
            Event("final_verdict", 100, "complete",
                  ProgressiveVerdict(gemini.decision)) >>
    /\ outcome' = ReturnedPrediction(ProgressivePrediction(gemini.decision))
    /\ pc' = "done"
    /\ UNCHANGED <<entryPoint, thinkingCallback, marketData, indicators, anchorIndicators, gemini,
                   validation>>
    /\ UNCHANGED harnessVars

\* ---- generateTransparentPrediction ----
T_Start ==
    /\ IsTransparent /\ pc = "start"
    /\ events' = events \o << InProgress("data_collection", 0),
                              InProgress("data_collection", 30) >>
    /\ pc' = "fetch"
    /\ UNCHANGED <<entryPoint, thinkingCallback, marketData, indicators, anchorIndicators, gemini,
                   validation, outcome>>
    /\ UNCHANGED harnessVars

T_FetchOk ==
    /\ IsTransparent /\ pc = "fetch"
    /\ marketData' \in MarketDataSet
    /\ events' = events \o << Complete("data_collection"),
                              InProgress("technical_calculation", 0) >>
    /\ pc' = "analyze"
    /\ UNCHANGED <<entryPoint, thinkingCallback, indicators, anchorIndicators, gemini, validation,
                   outcome>>
    /\ UNCHANGED harnessVars

\* no handler encloses the await of fetchMarketData: the rejection is the
\* rejection of the promise generateTransparentPrediction returned
T_FetchThrows ==
    /\ IsTransparent /\ pc = "fetch"
    /\ outcome' = Threw
    /\ pc' = "done"
    /\ UNCHANGED <<entryPoint, thinkingCallback, marketData, indicators, anchorIndicators, gemini,
                   events, validation>>
    /\ UNCHANGED harnessVars

T_AnalyzeOk ==
    /\ IsTransparent /\ pc = "analyze"
    /\ indicators' \in IndicatorsSet
    /\ pc' = "anchor"
    /\ UNCHANGED <<entryPoint, thinkingCallback, marketData, anchorIndicators, gemini, events,
                   validation, outcome>>
    /\ UNCHANGED harnessVars

T_AnalyzeThrows ==
    /\ IsTransparent /\ pc = "analyze"
    /\ outcome' = Threw
    /\ pc' = "done"
    /\ UNCHANGED <<entryPoint, thinkingCallback, marketData, indicators, anchorIndicators, gemini,
                   events, validation>>
    /\ UNCHANGED harnessVars

\* Variant: the aggregation stage is announced before the technical stage
\* is reported complete.
TransparentMidEventsEarlyAggregation ==
    << InProgress("technical_calculation", 50),
       InProgress("signal_aggregation", 0),
       Complete("technical_calculation"),
       InProgress("signal_aggregation", 50),
       Complete("signal_aggregation"),
       InProgress("ai_thinking", 0),
       InProgress("ai_thinking", 50) >>

\* the events from the anchor fetch to the call of the oracle
TransparentMidEvents ==
    << InProgress("technical_calculation", 50),
       Complete("technical_calculation"),
       InProgress("signal_aggregation", 0),
       InProgress("signal_aggregation", 50),
       Complete("signal_aggregation"),
       InProgress("ai_thinking", 0),
       InProgress("ai_thinking", 50) >>

T_AnchorOk ==
    /\ IsTransparent /\ pc = "anchor"
    /\ anchorIndicators' \in AnchorSet
    /\ events' = events \o TransparentMidEvents
    /\ gemini' = GeminiCalled
    /\ pc' = "gemini"
    /\ UNCHANGED <<entryPoint, thinkingCallback, marketData, indicators, validation, outcome>>
    /\ UNCHANGED harnessVars

\* Variant: the anchor fetch is awaited outside the try block.
T_AnchorThrowsFatal ==
    /\ IsTransparent /\ pc = "anchor"
    /\ outcome' = Threw
    /\ pc' = "done"
    /\ UNCHANGED <<entryPoint, thinkingCallback, marketData, indicators, anchorIndicators, gemini,
                   events, validation>>
    /\ UNCHANGED harnessVars

\* the anchor fetch or analyzeMarket on its candles throws: caught, warned
T_AnchorThrows ==
    /\ IsTransparent /\ pc = "anchor"
    /\ anchorIndicators' = Null
    /\ events' = events \o TransparentMidEvents
    /\ gemini' = GeminiCalled
    /\ pc' = "gemini"
    /\ UNCHANGED <<entryPoint, thinkingCallback, marketData, indicators, validation, outcome>>
    /\ UNCHANGED harnessVars

T_GeminiReturned ==
    /\ IsTransparent /\ pc = "gemini"
    /\ gemini.status = "returned"
    /\ events' = events \o << InProgress("ai_thinking", 100) >>
    /\ pc' = "await_thinking"
    /\ UNCHANGED <<entryPoint, thinkingCallback, marketData, indicators, anchorIndicators, gemini,
                   validation, outcome>>
    /\ UNCHANGED harnessVars

\* "if (waitForAiThinkingComplete) await waitForAiThinkingComplete()": the
\* callback is called once the ai_thinking 100 update is out
T_CallThinkingCallback ==
    /\ IsTransparent /\ pc = "await_thinking"
    /\ entryPoint.waitForAiThinkingComplete
    /\ thinkingCallback' = [awaited |-> thinkingCallback.awaited + 1,
                            promise |-> "pending"]
    /\ pc' = "thinking_callback"
    /\ UNCHANGED <<entryPoint, marketData, indicators, anchorIndicators, gemini,
                   events, validation, outcome>>
    /\ UNCHANGED harnessVars

\* the awaited promise resolves, rejects (the await throws and nothing
\* catches it) or is never settled
T_ThinkingSettled ==
    /\ IsTransparent /\ pc = "thinking_callback"
    /\ thinkingCallback.promise = "pending"
    /\ \E o \in PromiseOutcomes :
         /\ thinkingCallback' = [thinkingCallback EXCEPT !.promise = o]
         /\ IF o = "rejected"
            THEN outcome' = Threw /\ pc' = "done"
            ELSE UNCHANGED <<outcome, pc>>
    /\ UNCHANGED <<entryPoint, marketData, indicators, anchorIndicators, gemini,
                   events, validation>>
    /\ UNCHANGED harnessVars

\* Variant: the run goes on after the delay whether or not a callback was
\* supplied or has resolved.
ThinkingWaitOverByDelay ==
    pc \in {"await_thinking", "thinking_callback"}

\* the wait of lines 1065-1069 is over: the callback's promise resolved, or,
\* without a callback, the delay of 3000 ms elapsed
ThinkingWaitOver ==
    IF entryPoint.waitForAiThinkingComplete
    THEN pc = "thinking_callback" /\ thinkingCallback.promise = "resolved"
    ELSE pc = "await_thinking"

\* the rest of the run: ai_thinking complete, the verdict, the return
T_Verdict ==
    /\ IsTransparent /\ ThinkingWaitOver
    /\ LET v == TransparentVerdict(marketData, indicators, anchorIndicators,
                                   gemini.decision)
       IN  /\ validation' = v.validation
           /\ events' = events \o
                << Complete("ai_thinking"),
                   InProgress("final_verdict", 0),
                   Event("final_verdict", 100, "complete", v.verdict) >>
           /\ outcome' = ReturnedPrediction(v.prediction)
    /\ pc' = "done"
    /\ UNCHANGED <<entryPoint, thinkingCallback, marketData, indicators, anchorIndicators, gemini>>
    /\ UNCHANGED harnessVars

Next ==
    \/ CallGeminiModel
    \/ P_Start \/ P_FetchOk \/ P_FetchThrows \/ P_AnalyzeOk \/ P_AnalyzeThrows
    \/ P_Verdict
    \/ T_Start \/ T_FetchOk \/ T_FetchThrows \/ T_AnalyzeOk \/ T_AnalyzeThrows
    \/ T_AnchorOk \/ T_AnchorThrows \/ T_GeminiReturned
    \/ T_CallThinkingCallback \/ T_ThinkingSettled \/ T_Verdict

Spec == Init /\ [][Next]_vars

(***************************************************************************)
(* Pure-function harness: the inputs are drawn at Init, one action applies *)
(* the function.                                                          *)
(***************************************************************************)
Pending == [pending |-> TRUE]

Returned == "pending" \notin DOMAIN ret

BaseConfidences == MinBase..MaxBase
AdxValues == 14..MaxAdx
VolumeRatios == {[num |-> 109, den |-> 100], [num |-> 11, den |-> 10],
                 [num |-> 3, den |-> 2]}

ValidateArgs ==
    [baseConfidence : BaseConfidences, volumeRatio : VolumeRatios,
     adxValue : AdxValues, trendAlignment : BOOLEAN, rsiNeutral : BOOLEAN,
     hasVolumeDivergence : BOOLEAN]

InitValidate ==
    /\ op = "calculateValidatedConfidence"
    /\ args \in ValidateArgs
    /\ ret = Pending
    /\ RunIdle

ApplyValidate ==
    /\ op = "calculateValidatedConfidence"
    /\ ~Returned
    /\ ret' = calculateValidatedConfidence(args.baseConfidence, args.volumeRatio,
                  args.adxValue, args.trendAlignment, args.rsiNeutral,
                  args.hasVolumeDivergence)
    /\ UNCHANGED <<op, args>>
    /\ UNCHANGED runVars

NextValidate == ApplyValidate

SpecValidate == InitValidate /\ [][NextValidate]_vars

Directions == {"UP", "DOWN"}
Prices == {p * PriceScale : p \in 1..MaxPrice}
AtrValues == {a * AtrStep : a \in (-MaxAtrSteps)..MaxAtrSteps}
CandPrices == {p * PriceScale : p \in 1..MaxCandPrice}

FiniteCandidates ==
    {Candidate("object", {}, el, eh, tl, th, s) :
        el \in CandPrices, eh \in CandPrices, tl \in CandPrices,
        th \in CandPrices, s \in CandPrices}

MalformedCandidates ==
    {Candidate(sh, {}, PriceScale, PriceScale, PriceScale, PriceScale, PriceScale) :
        sh \in {"absent", "notObject", "noEntry", "noTarget"}}
    \cup
    {Candidate("object", {f}, PriceScale, PriceScale, PriceScale, PriceScale, PriceScale) :
        f \in TargetFields}

\* "resolveTradeTargets" is the caller's expression
\* normalizeTradeTargets(...) ?? computeFallbackTradeTargets(...)
InitTargets ==
    /\ op \in {"computeFallbackTradeTargets", "normalizeTradeTargets",
               "resolveTradeTargets"}
    /\ \E d \in Directions, p \in Prices, a \in AtrValues :
         IF op = "computeFallbackTradeTargets"
         THEN args = [direction |-> d, currentPrice |-> p, atr |-> a]
         ELSE \E c \in FiniteCandidates \cup MalformedCandidates :
                args = [maybeTargets |-> c, direction |-> d,
                        currentPrice |-> p, atr |-> a]
    /\ ret = Pending
    /\ RunIdle

ApplyFallback ==
    /\ op = "computeFallbackTradeTargets"
    /\ ~Returned
    /\ ret' = computeFallbackTradeTargets(args.direction, args.currentPrice, args.atr)
    /\ UNCHANGED <<op, args>>
    /\ UNCHANGED runVars

ApplyNormalize ==
    /\ op = "normalizeTradeTargets"
    /\ ~Returned
    /\ ret' = normalizeTradeTargets(args.maybeTargets, args.direction,
                                    args.currentPrice, args.atr)
    /\ UNCHANGED <<op, args>>
    /\ UNCHANGED runVars

ApplyResolve ==
    /\ op = "resolveTradeTargets"
    /\ ~Returned
    /\ ret' = ProceedTargets(args.direction, args.maybeTargets,
                             args.currentPrice, args.atr)
    /\ UNCHANGED <<op, args>>
    /\ UNCHANGED runVars

NextTargets == ApplyFallback \/ ApplyNormalize \/ ApplyResolve

SpecTargets == InitTargets /\ [][NextTargets]_vars

(***************************************************************************)
(* Harness of the two aggregation steps: the indicator readings are drawn  *)
(* independently of one another.                                           *)
(***************************************************************************)
StochasticReadings ==
    {[k |-> 10, d |-> 10], [k |-> 10, d |-> 50], [k |-> 50, d |-> 50],
     [k |-> 90, d |-> 90]}
AdxReadings ==
    [value : {20, 45, 55}, plusDI : {30}, minusDI : {10}]
    \cup [value : {20, 45, 55}, plusDI : {10}, minusDI : {30}]
BollingerReadings ==
    {[lower |-> RunPrice + PriceScale, upper |-> RunPrice + 2 * PriceScale],
     [lower |-> RunPrice - PriceScale, upper |-> RunPrice + PriceScale],
     [lower |-> RunPrice - 2 * PriceScale, upper |-> RunPrice - PriceScale]}
MomentumReadings ==
    {[momentum |-> 4, roc |-> 40], [momentum |-> 0, roc |-> 0],
     [momentum |-> -4, roc |-> -40]}
SupportResistanceReadings ==
    {[distanceToSupport |-> 10, distanceToResistance |-> 50],
     [distanceToSupport |-> 50, distanceToResistance |-> 50],
     [distanceToSupport |-> 50, distanceToResistance |-> 10]}

SignalReadings ==
    {[rsi |-> r, stochastic |-> st, macd |-> [histogram |-> h], adx |-> a,
      movingAverages |-> [sma50 |-> m], bollingerBands |-> bb,
      momentum |-> mo.momentum, roc |-> mo.roc, supportResistance |-> sr] :
        r \in {25, 50, 75}, st \in StochasticReadings, h \in {-20, 5, 20},
        a \in AdxReadings, m \in {RunPrice - PriceScale, RunPrice + PriceScale},
        bb \in BollingerReadings, mo \in MomentumReadings,
        sr \in SupportResistanceReadings}

InitSignals ==
    /\ op \in {"aggregateProgressive", "aggregateTransparent"}
    /\ \E ind \in SignalReadings, v \in {0, 20} :
         args = [marketData |-> [currentPrice |-> RunPrice, volumeChange24h |-> v],
                 indicators |-> ind]
    /\ ret = Pending
    /\ RunIdle

\* stage 3 of generateProgressivePrediction on the signals of stage 2
ApplyAggregateProgressive ==
    /\ op = "aggregateProgressive"
    /\ ~Returned
    /\ ret' = AggregateProgressive(progressiveSignals(args.marketData,
                                                      args.indicators))
    /\ UNCHANGED <<op, args>>
    /\ UNCHANGED runVars

\* the aggregation of generateTransparentPrediction and the direction it
\* falls back to without the oracle
ApplyAggregateTransparent ==
    /\ op = "aggregateTransparent"
    /\ ~Returned
    /\ LET agg == Aggregate(technicalIndicatorsList(args.marketData,
                                                    args.indicators))
       IN  ret' = [upCount |-> agg.upCount, downCount |-> agg.downCount,
                   upScore |-> agg.upScore, downScore |-> agg.downScore,
                   totalSignals |-> agg.totalSignals,
                   signalAlignment |-> agg.signalAlignment,
                   direction |-> InternalDirection(agg)]
    /\ UNCHANGED <<op, args>>
    /\ UNCHANGED runVars

NextSignals == ApplyAggregateProgressive \/ ApplyAggregateTransparent

SpecSignals == InitSignals /\ [][NextSignals]_vars

(***************************************************************************)
(* Harness of the two signal mappers: every reading on each side of its    *)
(* thresholds, the Bollinger band also with no width                       *)
(***************************************************************************)
MapperStochastic ==
    {[k |-> 10, d |-> 10], [k |-> 10, d |-> 50], [k |-> 50, d |-> 50],
     [k |-> 90, d |-> 90]}
MapperAdx ==
    {[value |-> 20, plusDI |-> 30, minusDI |-> 10],
     [value |-> 45, plusDI |-> 30, minusDI |-> 10],
     [value |-> 55, plusDI |-> 30, minusDI |-> 10],
     [value |-> 55, plusDI |-> 10, minusDI |-> 30],
     [value |-> 55, plusDI |-> 10, minusDI |-> 10]}
MapperBollinger ==
    {[lower |-> RunPrice + PriceScale, upper |-> RunPrice + 2 * PriceScale],
     [lower |-> RunPrice - PriceScale, upper |-> RunPrice + PriceScale],
     [lower |-> RunPrice - 2 * PriceScale, upper |-> RunPrice - PriceScale],
     [lower |-> RunPrice - PriceScale, upper |-> RunPrice + 19 * PriceScale],
     [lower |-> RunPrice + PriceScale, upper |-> RunPrice + PriceScale],
     [lower |-> RunPrice, upper |-> RunPrice],
     [lower |-> RunPrice - PriceScale, upper |-> RunPrice - PriceScale]}
MapperMomentum ==
    {[momentum |-> 4, roc |-> 40], [momentum |-> 4, roc |-> 0],
     [momentum |-> 0, roc |-> 0], [momentum |-> -4, roc |-> -40]}
MapperSupportResistance ==
    {[distanceToSupport |-> 10, distanceToResistance |-> 50],
     [distanceToSupport |-> 10, distanceToResistance |-> 10],
     [distanceToSupport |-> 50, distanceToResistance |-> 50],
     [distanceToSupport |-> 50, distanceToResistance |-> 10]}

MapperReadings ==
    {[rsi |-> r, stochastic |-> st, macd |-> [histogram |-> h], adx |-> a,
      movingAverages |-> [sma50 |-> m], bollingerBands |-> bb,
      momentum |-> mo.momentum, roc |-> mo.roc, supportResistance |-> sr] :
        r \in {25, 50, 75}, st \in MapperStochastic, h \in {-20, 0, 5, 20},
        a \in MapperAdx,
        m \in {RunPrice - PriceScale, RunPrice, RunPrice + PriceScale},
        bb \in MapperBollinger, mo \in MapperMomentum,
        sr \in MapperSupportResistance}

InitMapper ==
    /\ op \in {"progressiveSignals", "technicalIndicatorsList"}
    /\ \E ind \in MapperReadings :
         args = [marketData |-> [currentPrice |-> RunPrice, volumeChange24h |-> 20],
                 indicators |-> ind]
    /\ ret = Pending
    /\ RunIdle

\* stage 2 of generateProgressivePrediction: bbPosition and the signals
ApplyProgressiveSignals ==
    /\ op = "progressiveSignals"
    /\ ~Returned
    /\ ret' = [bbPosition |-> bbPosition(args.marketData.currentPrice,
                                         args.indicators.bollingerBands.lower,
                                         args.indicators.bollingerBands.upper),
               signals |-> progressiveSignals(args.marketData, args.indicators)]
    /\ UNCHANGED <<op, args>>
    /\ UNCHANGED runVars

\* the indicator list of generateTransparentPrediction and the two scores
\* it is summed to
ApplyTechnicalIndicatorsList ==
    /\ op = "technicalIndicatorsList"
    /\ ~Returned
    /\ LET list == technicalIndicatorsList(args.marketData, args.indicators)
       IN  ret' = [indicators |-> list,
                   upScore |-> Aggregate(list).upScore,
                   downScore |-> Aggregate(list).downScore]
    /\ UNCHANGED <<op, args>>
    /\ UNCHANGED runVars

NextMapper == ApplyProgressiveSignals \/ ApplyTechnicalIndicatorsList

SpecMapper == InitMapper /\ [][NextMapper]_vars

(***************************************************************************)
(* Harness of the validation chain's check helpers                         *)
(***************************************************************************)
CallDirections == {"UP", "DOWN", "NEUTRAL"}
CandleCounts == {0, 4, 5, 200}
Closes == {13, 14, 15}
Volumes == {80, 100, 120}

InitChecks ==
    /\ op \in {"checkTrendAlignment", "checkVolumeDivergence"}
    /\ IF op = "checkTrendAlignment"
       THEN args \in [entryTrendBias : TrendBiases, anchorTrendBias : TrendBiases,
                      entryDirection : CallDirections]
       ELSE \E n \in CandleCounts, c1 \in Closes, c2 \in Closes,
               v1 \in Volumes, v2 \in Volumes, d \in CallDirections :
              args = [candles |-> Candles(n, c1, c2, v1, v2), direction |-> d]
    /\ ret = Pending
    /\ RunIdle

ApplyTrendAlignment ==
    /\ op = "checkTrendAlignment"
    /\ ~Returned
    /\ ret' = checkTrendAlignment(args.entryTrendBias, args.anchorTrendBias,
                                  args.entryDirection)
    /\ UNCHANGED <<op, args>>
    /\ UNCHANGED runVars

ApplyVolumeDivergence ==
    /\ op = "checkVolumeDivergence"
    /\ ~Returned
    /\ ret' = checkVolumeDivergence(args.candles, args.direction)
    /\ UNCHANGED <<op, args>>
    /\ UNCHANGED runVars

NextChecks == ApplyTrendAlignment \/ ApplyVolumeDivergence

SpecChecks == InitChecks /\ [][NextChecks]_vars

(***************************************************************************)
(* Claims about calculateValidatedConfidence (SpecValidate)                *)
(***************************************************************************)
ValidateReturned == op = "calculateValidatedConfidence" /\ Returned

\* the condition of rule i of the chain, as the specification lists them
RuleHolds(i, a) ==
    CASE i = 1 -> a.baseConfidence < 80
      [] i = 2 -> ~a.trendAlignment /\ a.baseConfidence < 82
      [] i = 3 -> a.volumeRatio.num * 10 < a.volumeRatio.den * 11
                  /\ a.baseConfidence < 85
      [] i = 4 -> a.hasVolumeDivergence /\ a.baseConfidence < 85
      [] i = 5 -> a.rsiNeutral /\ a.baseConfidence < 80
      [] i = 6 -> a.adxValue < 15

RuleReason(i) ==
    CASE i = 1 -> ReasonMinConfidence
      [] i = 2 -> ReasonTrendConflict
      [] i = 3 -> ReasonLowVolume
      [] i = 4 -> ReasonDivergence
      [] i = 5 -> ReasonRsiNeutral
      [] i = 6 -> ReasonRanging

FailingRules(a) == {i \in 1..6 : RuleHolds(i, a)}

LowestRule(S) == CHOOSE i \in S : \A j \in S : i <= j

\* C1: the six rules are evaluated in the order 1..6 and short-circuit: the
\* rejection reason is that of the lowest-numbered rule whose condition
\* holds, the outcome is shouldProceed with a null reason exactly when no
\* rule's condition holds, and 80 <= baseConfidence < 82 with
\* trendAligned = false is always the counter-trend rejection.
C1_RuleOrder ==
    ValidateReturned =>
        /\ ret.shouldProceed = (FailingRules(args) = {})
        /\ ret.rejectionReason =
              IF FailingRules(args) = {} THEN NoReason
              ELSE RuleReason(LowestRule(FailingRules(args)))
        /\ (args.baseConfidence >= 80 /\ args.baseConfidence < 82
            /\ ~args.trendAlignment)
              => ret.rejectionReason = ReasonTrendConflict

\* baseConfidence 81 against the trend, while rules 3, 4 and 6 hold as well:
\* rule 2 decides
C1_Witness ==
    /\ ValidateReturned
    /\ args.baseConfidence = 81 /\ ~args.trendAlignment
    /\ RuleHolds(3, args) /\ RuleHolds(4, args) /\ RuleHolds(6, args)
    /\ ret.rejectionReason = ReasonTrendConflict

\* C2: a ranging market (ADX < 15) is rejected whatever the confidence.
C2_RangingNotOverridable ==
    (ValidateReturned /\ args.adxValue < 15) => ret.shouldProceed = FALSE

\* baseConfidence 98, every other check passing, ADX 14
C2_Witness ==
    /\ ValidateReturned
    /\ args.baseConfidence = 98 /\ args.adxValue = 14
    /\ args.trendAlignment /\ ~args.rsiNeutral /\ ~args.hasVolumeDivergence
    /\ args.volumeRatio.num * 10 >= args.volumeRatio.den * 11
    /\ ret.shouldProceed = FALSE /\ ret.rejectionReason = ReasonRanging

\* C3: a rejection returns baseConfidence unmodified, an acceptance returns
\* min(98, baseConfidence).
C3_ReturnedConfidence ==
    ValidateReturned =>
        ret.confidence = IF ret.shouldProceed
                         THEN (IF args.baseConfidence < 98
                               THEN args.baseConfidence ELSE 98)
                         ELSE args.baseConfidence

\* a rejection of a confidence above the acceptance cap keeps it as it is
C3_Witness ==
    /\ ValidateReturned
    /\ args.baseConfidence > 98
    /\ ~ret.shouldProceed
    /\ ret.confidence = args.baseConfidence

(***************************************************************************)
(* Claims about the trade targets (SpecTargets)                            *)
(***************************************************************************)
\* entry.low <= entry.high, target.low <= target.high and the direction
\* invariants of a TradeTargets
TargetsInvariant(t, direction) ==
    /\ t.entry.low <= t.entry.high
    /\ t.target.low <= t.target.high
    /\ IF direction = "UP"
       THEN t.stop < t.entry.low /\ t.target.high > t.entry.high
       ELSE t.stop > t.entry.high /\ t.target.low < t.entry.low

NormalizeReturned == op = "normalizeTradeTargets" /\ Returned
FallbackReturned == op = "computeFallbackTradeTargets" /\ Returned

\* C4: a non-null result of normalizeTradeTargets satisfies the direction
\* invariants, for every finite candidate, direction, currentPrice and atr.
C4_NormalizedInvariant ==
    (NormalizeReturned /\ ~IsNull(ret)) => TargetsInvariant(ret, args.direction)

\* C5: the fallback targets satisfy the invariants for every positive
\* currentPrice and every atr, and the entry band is never zero-width.
C5_FallbackInvariant ==
    FallbackReturned =>
        /\ TargetsInvariant(ret, args.direction)
        /\ ret.entry.low < ret.entry.high

\* zero volatility: the floor of 0.002 * currentPrice sizes the bands
C5_Witness ==
    /\ FallbackReturned
    /\ args.atr = 0
    /\ args.direction = "DOWN"
    /\ ret.entry.high - ret.entry.low = (3 * (args.currentPrice \div 500)) \div 8

ResolveReturned == op = "resolveTradeTargets" /\ Returned

\* the candidate is absent, no object, lacks entry or target, or has a
\* numeric field that is no finite number
Malformed(c) == c.shape # "object" \/ c.nonFinite # {}

\* C15: normalizeTradeTargets returns null exactly for the malformed
\* candidates (absent, not an object, entry or target missing, or one of the
\* five numeric fields not a finite number), non-null for every candidate
\* whose five fields are finite, and the caller puts the full fallback in
\* the place of a null.
C15_NullIffMalformed ==
    /\ NormalizeReturned => (IsNull(ret) <=> Malformed(args.maybeTargets))
    /\ (ResolveReturned /\ Malformed(args.maybeTargets)) =>
          ret = computeFallbackTradeTargets(args.direction, args.currentPrice,
                                            args.atr)
    /\ ResolveReturned => ~IsNull(ret)

\* a candidate whose stop alone is no finite number: null
C15_Witness ==
    /\ NormalizeReturned
    /\ args.maybeTargets.shape = "object"
    /\ args.maybeTargets.nonFinite = {"stop"}
    /\ IsNull(ret)

\* the candidate's ranges with low <= high
NormalizedEntry(c) ==
    [low |-> Min(c.entry.low, c.entry.high), high |-> Max(c.entry.low, c.entry.high)]
NormalizedTarget(c) ==
    [low |-> Min(c.target.low, c.target.high),
     high |-> Max(c.target.low, c.target.high)]

\* the target side of the direction invariant fails for the candidate
TargetViolation(c, direction) ==
    IF direction = "UP"
    THEN ~(NormalizedTarget(c).high > NormalizedEntry(c).high)
    ELSE ~(NormalizedTarget(c).low < NormalizedEntry(c).low)

\* the stop is not on the correct side of the candidate's entry
StopViolation(c, direction) ==
    IF direction = "UP"
    THEN ~(c.stop < NormalizedEntry(c).low)
    ELSE ~(c.stop > NormalizedEntry(c).high)

\* C16: a target-side violation is not repaired: for a finite candidate
\* whose normalized target is not beyond the normalized entry, the result
\* is exactly computeFallbackTradeTargets(direction, currentPrice, atr).
C16_TargetViolationFallback ==
    (NormalizeReturned /\ ~Malformed(args.maybeTargets)
        /\ TargetViolation(args.maybeTargets, args.direction)) =>
        ret = computeFallbackTradeTargets(args.direction, args.currentPrice,
                                          args.atr)

\* UP with the target range below the entry and a valid stop: the result is
\* the fallback, whose entry is not the candidate's
C16_Witness ==
    /\ NormalizeReturned /\ ~Malformed(args.maybeTargets)
    /\ args.direction = "UP"
    /\ TargetViolation(args.maybeTargets, "UP")
    /\ ~StopViolation(args.maybeTargets, "UP")
    /\ ret.entry # NormalizedEntry(args.maybeTargets)
    /\ ret.stop # args.maybeTargets.stop

\* C17: a bad stop alone does not discard the candidate: with a valid
\* target side, the result has the candidate's normalized entry and target
\* and the stop is the fallback's when the candidate's is on the wrong side
\* of the entry, the candidate's own otherwise.
C17_StopRepairedInPlace ==
    (NormalizeReturned /\ ~Malformed(args.maybeTargets)
        /\ ~TargetViolation(args.maybeTargets, args.direction)) =>
        /\ ret.entry = NormalizedEntry(args.maybeTargets)
        /\ ret.target = NormalizedTarget(args.maybeTargets)
        /\ ret.stop =
              IF StopViolation(args.maybeTargets, args.direction)
              THEN computeFallbackTradeTargets(args.direction,
                       args.currentPrice, args.atr).stop
              ELSE args.maybeTargets.stop

\* DOWN with entry high..low given in reverse, a valid target and the stop
\* below the entry: entry and target are kept, the stop is the fallback's
C17_Witness ==
    /\ NormalizeReturned /\ ~Malformed(args.maybeTargets)
    /\ args.direction = "DOWN"
    /\ args.maybeTargets.entry.low > args.maybeTargets.entry.high
    /\ ~TargetViolation(args.maybeTargets, "DOWN")
    /\ StopViolation(args.maybeTargets, "DOWN")
    /\ ret.entry = NormalizedEntry(args.maybeTargets)
    /\ ret.stop # args.maybeTargets.stop
    /\ ret.entry # computeFallbackTradeTargets("DOWN", args.currentPrice,
                                               args.atr).entry

(***************************************************************************)
(* Claims about the aggregation steps (SpecSignals)                        *)
(***************************************************************************)
AggregateReturned ==
    op \in {"aggregateProgressive", "aggregateTransparent"} /\ Returned

\* C18: in every aggregation step signalAlignment is
\* max(upCount, downCount) / totalSignals * 100, and 0 when totalSignals is
\* 0, also when the side with the larger score has the fewer signals.
C18_SignalAlignment ==
    AggregateReturned =>
        IF ret.totalSignals = 0
        THEN ret.signalAlignment.num = 0
        ELSE ret.signalAlignment.num * ret.totalSignals =
                 100 * Max(ret.upCount, ret.downCount) * ret.signalAlignment.den

\* C18, for the aggregation of generateTransparentPrediction alone
C18_TransparentAlignment ==
    (AggregateReturned /\ op = "aggregateTransparent") =>
        /\ ret.totalSignals > 0
        /\ ret.signalAlignment.num * ret.totalSignals =
               100 * Max(ret.upCount, ret.downCount) * ret.signalAlignment.den

\* C19: the internal direction is a function of the two scores that favours
\* DOWN on ties: UP exactly when upScore > downScore, DOWN otherwise, in the
\* signal_aggregation event of generateProgressivePrediction and in the
\* direction generateTransparentPrediction falls back to.
C19_TieGoesDown ==
    AggregateReturned =>
        /\ ret.direction \in {"UP", "DOWN"}
        /\ ret.direction = "UP" <=> ret.upScore > ret.downScore
        /\ ret.upScore = ret.downScore => ret.direction = "DOWN"

\* equal non-zero scores: DOWN
C19_Witness ==
    /\ AggregateReturned
    /\ ret.upScore = ret.downScore
    /\ ret.upScore > 0
    /\ ret.direction = "DOWN"

(***************************************************************************)
(* Claims about the runs of the two entry points (Spec)                    *)
(***************************************************************************)
RunReturned == pc = "done" /\ outcome.kind = "returned"

\* the market-data fetch or the indicator computation of the run threw
DataFailed == pc = "done" /\ (marketData = NotYet \/ indicators = NotYet)

IsTrade(direction) == direction \in {"UP", "DOWN"}

\* the payloads of the final_verdict 'complete' events sent so far
FinalVerdicts ==
    {events[i].data : i \in {j \in 1..Len(events) :
        events[j].stage = "final_verdict" /\ events[j].status = "complete"}}

\* the verdicts the run has put out: the events' and the returned Prediction
PublishedVerdicts ==
    FinalVerdicts \cup (IF RunReturned THEN {outcome.prediction} ELSE {})

\* C6: every run of either entry point ends by returning a Prediction; when
\* the market-data fetch or the indicator computation throws, it returns the
\* NEUTRAL placeholder with its explanatory message and nothing is thrown to
\* the caller.
C6_AlwaysReturnsPrediction ==
    pc = "done" =>
        /\ outcome.kind = "returned"
        /\ DataFailed =>
              /\ outcome.prediction.direction = "NEUTRAL"
              /\ outcome.prediction.analysis = MsgDataUnavailable

\* C7: an UP or DOWN verdict is put out only after calculateValidatedConfidence
\* returned shouldProceed = true for the run, and never when the entry
\* timeframe's ADX is below 15.
C7_ValidatedBeforeRecommendation ==
    \A v \in PublishedVerdicts :
        IsTrade(v.direction) =>
            /\ validation # NotYet
            /\ validation.result.shouldProceed
            /\ indicators.adx.value >= 15

\* C8: trade targets in the returned Prediction or in the final_verdict event
\* are the result of normalizeTradeTargets on the oracle's candidate or the
\* computed fallback.
C8_TargetsValidated ==
    \A v \in PublishedVerdicts :
        ~IsUndefined(v.tradeTargets) =>
            /\ IsTrade(v.direction)
            /\ LET candidate == IF IsNull(gemini.decision) THEN AbsentCandidate
                                ELSE gemini.decision.tradeTargets
                   normalized == normalizeTradeTargets(candidate, v.direction,
                                     marketData.currentPrice, indicators.atr)
               IN  v.tradeTargets =
                       IF ~IsNull(normalized) THEN normalized
                       ELSE computeFallbackTradeTargets(v.direction,
                                marketData.currentPrice, indicators.atr)

\* the run's oracle call resolved to null and the run went on to its end
OracleNullRunEnded ==
    /\ pc = "done"
    /\ gemini.status = "returned"
    /\ IsNull(gemini.decision)

\* c = Math.round(Math.min(95, 0.8 * signalAlignment + 0.2 * trendStrength)),
\* signalAlignment = max(upCount, downCount) / totalSignals * 100
IsBlendedConfidence(c, agg, trendStrength) ==
    LET m == IF agg.upCount > agg.downCount THEN agg.upCount ELSE agg.downCount
        \* 10 * totalSignals * (0.8 * signalAlignment + 0.2 * trendStrength)
        x10t == 800 * m + 2 * agg.totalSignals * trendStrength
        t10 == 10 * agg.totalSignals
    IN  IF x10t >= 95 * t10 THEN c = 95
        ELSE 2 * c * t10 - t10 <= 2 * x10t /\ 2 * x10t < 2 * c * t10 + t10

\* C9: when the oracle gate returns null the run goes on with the internal
\* direction (UP if upScore > downScore, else DOWN) and the internal
\* confidence round(min(95, 0.8 * signalAlignment + 0.2 * trendStrength)) and
\* passes these to the validation chain.
C9_OracleNullFallsBack ==
    OracleNullRunEnded =>
        /\ validation # NotYet
        /\ LET agg == Aggregate(technicalIndicatorsList(marketData, indicators))
           IN  /\ validation.direction =
                     IF agg.upScore > agg.downScore THEN "UP" ELSE "DOWN"
               /\ IsBlendedConfidence(validation.args.baseConfidence, agg,
                                      indicators.trendStrength)

\* C10: getGeminiPrediction never throws: it resolves to a decision or to
\* null, and to null when all three model attempts failed.
C10_GeminiNeverThrows ==
    /\ gemini.status # "thrown"
    /\ gemini.failed = Len(GeminiModels) =>
          gemini.status = "returned" /\ IsNull(gemini.decision)
    /\ (gemini.status = "returned" /\ gemini.failed < Len(GeminiModels)) =>
          ~IsNull(gemini.decision)

\* the three models were called and each call threw
C10_Witness ==
    /\ gemini.calls = GeminiModels
    /\ gemini.failed = 3
    /\ gemini.status = "returned"
    /\ IsNull(gemini.decision)

\* the run is past its anchor-timeframe step and that step failed
AnchorFailed ==
    /\ IsTransparent
    /\ pc \in {"gemini", "await_thinking", "thinking_callback", "done"}
    /\ indicators # NotYet
    /\ IsNull(anchorIndicators)

\* C12: a failure of the anchor-timeframe fetch (or of analyzeMarket on its
\* candles) is not fatal in generateTransparentPrediction: nothing is thrown,
\* and the run that ends returns a Prediction whose validation used
\* {aligned: true, reason: "No anchor check performed"} without calling
\* checkTrendAlignment.
C12_AnchorFailureNonFatal ==
    (AnchorFailed /\ thinkingCallback.promise # "rejected") =>
        /\ outcome.kind # "thrown"
        /\ pc = "done" =>
              /\ outcome.kind = "returned"
              /\ validation # NotYet
              /\ ~validation.checkTrendAlignmentCalled
              /\ validation.trendCheck = NoAnchorCheck
              /\ validation.args.trendAlignment = TRUE

\* the anchor fetch failed while the entry trend bias is BULLISH and the
\* direction DOWN, and the run returned its Prediction
C12_Witness ==
    /\ AnchorFailed
    /\ RunReturned
    /\ indicators.trendBias = "BULLISH"
    /\ validation.direction = "DOWN"
    /\ validation.trendCheck = NoAnchorCheck

\* a run of generateTransparentPrediction returned after its validation
TransparentReturned == IsTransparent /\ RunReturned /\ validation # NotYet

\* C13: when the validation chain rejects (shouldProceed = false), the
\* final_verdict event and the returned Prediction of
\* generateTransparentPrediction have direction NEUTRAL whatever direction
\* went into the chain, no trade targets, the validator's confidence (the
\* base confidence, not zero) and the rejection reason among riskFactors.
C13_RejectionVerdict ==
    (TransparentReturned /\ ~validation.result.shouldProceed) =>
        /\ FinalVerdicts # {}
        /\ \A v \in PublishedVerdicts :
              /\ v.direction = "NEUTRAL"
              /\ IsUndefined(v.tradeTargets)
              /\ ~v.confidenceIsNaN
              /\ v.confidence = validation.result.confidence
              /\ v.confidence = validation.args.baseConfidence
              /\ \E i \in DOMAIN v.riskFactors :
                    v.riskFactors[i] = validation.result.rejectionReason

\* the oracle said UP with confidence 98 in a ranging market: NEUTRAL at 98
C13_Witness ==
    /\ TransparentReturned
    /\ validation.direction = "UP"
    /\ validation.result = Rejected(98, ReasonRanging)
    /\ outcome.prediction.direction = "NEUTRAL"
    /\ outcome.prediction.confidence = 98

\* the trade targets the run's candidate resolves to for the direction d
ResolvedTargets(d) ==
    LET candidate == IF IsNull(gemini.decision) THEN AbsentCandidate
                     ELSE gemini.decision.tradeTargets
        normalized == normalizeTradeTargets(candidate, d,
                          marketData.currentPrice, indicators.atr)
    IN  IF ~IsNull(normalized) THEN normalized
        ELSE computeFallbackTradeTargets(d, marketData.currentPrice,
                                         indicators.atr)

\* C14: when the validation chain accepts (shouldProceed = true) and the
\* direction is UP or DOWN, the Prediction generateTransparentPrediction
\* returns carries trade targets: the oracle's candidate as validated by
\* normalizeTradeTargets when that is non-null, the fallback otherwise.
C14_ProceedCarriesTargets ==
    (TransparentReturned /\ validation.result.shouldProceed
        /\ IsTrade(validation.direction)) =>
        /\ outcome.prediction.direction = validation.direction
        /\ ~IsUndefined(outcome.prediction.tradeTargets)
        /\ outcome.prediction.tradeTargets = ResolvedTargets(validation.direction)

\* C14, for the final_verdict event alone: its data carry the resolved
\* trade targets of an accepted UP or DOWN verdict.
C14_EventCarriesTargets ==
    (TransparentReturned /\ validation.result.shouldProceed
        /\ IsTrade(validation.direction)) =>
        /\ FinalVerdicts # {}
        /\ \A v \in FinalVerdicts :
              /\ v.direction = validation.direction
              /\ v.tradeTargets = ResolvedTargets(validation.direction)

\* the stages in their order
Stages ==
    << "data_collection", "technical_calculation", "signal_aggregation",
       "ai_thinking", "final_verdict" >>

StageIndex(stage) == CHOOSE i \in DOMAIN Stages : Stages[i] = stage

\* the positions in events of the 'complete' events of a stage
CompleteEvents(stage) ==
    {i \in DOMAIN events :
        events[i].stage = stage /\ events[i].status = "complete"}

\* no collaborator of the run threw
NoFailure == marketData # NotYet /\ indicators # NotYet

\* C20: in a run that returns, the stage events come in the order
\* data_collection, technical_calculation, signal_aggregation, ai_thinking,
\* final_verdict: no event of a stage follows one of a later stage, the
\* progress within a stage does not decrease and is within 0..100, the
\* status is pending, in_progress or complete, and a stage's 'complete'
\* event is its only one and its last event, before every event of the
\* stages after it; a run in which nothing failed completes all five stages.
C20_StageOrder ==
    RunReturned =>
        /\ \A i \in DOMAIN events :
              /\ \E k \in DOMAIN Stages : Stages[k] = events[i].stage
              /\ events[i].progress \in 0..100
              /\ events[i].status \in {"pending", "in_progress", "complete"}
        /\ \A i, j \in DOMAIN events :
              i < j =>
                /\ StageIndex(events[i].stage) <= StageIndex(events[j].stage)
                /\ events[i].stage = events[j].stage =>
                      /\ events[i].progress <= events[j].progress
                      /\ events[i].status # "complete"
        /\ NoFailure =>
              \A k \in DOMAIN Stages : Cardinality(CompleteEvents(Stages[k])) = 1

\* a run of generateProgressivePrediction with the optional ai_thinking 90
\* event has returned, all five stages complete
C20_Witness ==
    /\ RunReturned /\ IsProgressive /\ NoFailure
    /\ \E i \in DOMAIN events :
          events[i].stage = "ai_thinking" /\ events[i].progress = 90
    /\ events[Len(events)].stage = "final_verdict"
    /\ events[Len(events)].status = "complete"

\* C11: the oracle call is time-bounded: a run whose oracle does not answer
\* (a model stream that never ends) is not blocked; getGeminiPrediction
\* returns and the run can go on to its final verdict.  Stated on a finite
\* run: a run that has not ended can always take a step.
C11_OracleTimeBounded == pc # "done" => ENABLED Next

\* C27: no input makes calculateValidatedConfidence return the RSI
\* neutral-zone reason (rule 1 has rejected every baseConfidence < 80
\* before rule 5 is reached), and the result is the same with rsiNeutral
\* true and false.
C27_RsiRuleDead ==
    ValidateReturned =>
        /\ ret.rejectionReason # ReasonRsiNeutral
        /\ \A r \in BOOLEAN :
              calculateValidatedConfidence(args.baseConfidence, args.volumeRatio,
                  args.adxValue, args.trendAlignment, r,
                  args.hasVolumeDivergence) = ret

\* RSI in the neutral zone: at baseConfidence 79 rule 1 gives the reason, at
\* 80 with every other check passing the setup goes ahead
C27_Witness ==
    /\ ValidateReturned
    /\ args.rsiNeutral
    /\ \/ args.baseConfidence = 79 /\ ret.rejectionReason = ReasonMinConfidence
       \/ args.baseConfidence = 80 /\ ret.shouldProceed

(***************************************************************************)
(* Claims about the check helpers (SpecChecks)                             *)
(***************************************************************************)
TrendAlignmentReturned == op = "checkTrendAlignment" /\ Returned

TrendOpposed(direction, anchorTrendBias) ==
    \/ direction = "UP" /\ anchorTrendBias = "BEARISH"
    \/ direction = "DOWN" /\ anchorTrendBias = "BULLISH"

\* C21: checkTrendAlignment returns aligned = false exactly for an UP call
\* against a BEARISH anchor or a DOWN call against a BULLISH anchor (so it is
\* aligned whenever either side is NEUTRAL or the two match), and the result
\* is the same for every value of entryTrendBias.
C21_TrendAlignmentTable ==
    TrendAlignmentReturned =>
        /\ ret.aligned = ~TrendOpposed(args.entryDirection, args.anchorTrendBias)
        /\ \A e \in TrendBiases :
              checkTrendAlignment(e, args.anchorTrendBias, args.entryDirection) = ret

\* an UP call whose own timeframe is BULLISH is rejected against a BEARISH
\* anchor, and a DOWN call whose own timeframe is BULLISH passes against it
C21_Witness ==
    /\ TrendAlignmentReturned
    /\ args.entryTrendBias = "BULLISH"
    /\ args.anchorTrendBias = "BEARISH"
    /\ \/ args.entryDirection = "UP" /\ ~ret.aligned
       \/ args.entryDirection = "DOWN" /\ ret.aligned

VolumeDivergenceReturned == op = "checkVolumeDivergence" /\ Returned

StartsWith(str, prefix) ==
    Len(str) >= Len(prefix) /\ SubSeq(str, 1, Len(prefix)) = prefix

DivergenceExpected(candles, direction) ==
    /\ candles.length >= 5
    /\ candles.lastVolume < candles.prevVolume
    /\ \/ direction = "UP" /\ candles.lastClose > candles.prevClose
       \/ direction = "DOWN" /\ candles.lastClose < candles.prevClose

\* C22: checkVolumeDivergence reports a divergence exactly when there are at
\* least 5 candles and the last candle, against the one before it, closed
\* higher on lower volume for UP or closed lower on lower volume for DOWN;
\* the reason of an UP divergence starts with "Weak Breakout".
C22_VolumeDivergence ==
    VolumeDivergenceReturned =>
        /\ ret.hasDivergence = DivergenceExpected(args.candles, args.direction)
        /\ (ret.hasDivergence /\ args.direction = "UP")
              => StartsWith(ret.reason, "Weak Breakout")
        /\ (args.candles.length < 5 \/ args.direction = "NEUTRAL")
              => ~ret.hasDivergence

\* closes 13 then 14 on volumes 100 then 80, called UP
C22_Witness ==
    /\ VolumeDivergenceReturned
    /\ args.candles.length = 5
    /\ args.candles.prevClose = 13 /\ args.candles.lastClose = 14
    /\ args.candles.prevVolume = 100 /\ args.candles.lastVolume = 80
    /\ args.direction = "UP"
    /\ ret.hasDivergence
    /\ StartsWith(ret.reason, "Weak Breakout")

(***************************************************************************)
(* Claims about the signal mappers (SpecMapper)                            *)
(***************************************************************************)
\* The canonical threshold table, row by row: direction, strength and weight
\* (in tenths) of the eight signals.  The Bollinger position has no value
\* when upper = lower, and then neither of its two conditions holds.
CanonicalRow(isUp, isDown, triggered, rest, weight) ==
    [direction |-> IF isUp THEN "UP" ELSE IF isDown THEN "DOWN" ELSE "NEUTRAL",
     strength |-> IF isUp \/ isDown THEN triggered ELSE rest,
     weight |-> weight]

CanonicalSignals(md, ind) ==
    LET width == ind.bollingerBands.upper - ind.bollingerBands.lower
        offset == md.currentPrice - ind.bollingerBands.lower
        \* position < 0.10 and position > 0.90 for position = offset / width
        low == \/ width > 0 /\ 10 * offset < width
               \/ width < 0 /\ 10 * offset > width
        high == \/ width > 0 /\ 10 * offset > 9 * width
                \/ width < 0 /\ 10 * offset < 9 * width
        adxStrength == IF ind.adx.value > 50 THEN 80
                       ELSE IF ind.adx.value > 30 THEN 60 ELSE 30
        macdStrength == IF Abs(ind.macd.histogram) > 10 THEN 75 ELSE 50
    IN  [RSI |-> CanonicalRow(ind.rsi < 30, ind.rsi > 70, 85, 50, 12),
         Stochastic |->
             CanonicalRow(ind.stochastic.k < 20 /\ ind.stochastic.d < 20,
                          ind.stochastic.k > 80 /\ ind.stochastic.d > 80,
                          90, 50, 12),
         MACD |-> CanonicalRow(ind.macd.histogram > 0, ind.macd.histogram <= 0,
                               macdStrength, macdStrength, 14),
         SMA50 |-> CanonicalRow(md.currentPrice > ind.movingAverages.sma50,
                                md.currentPrice <= ind.movingAverages.sma50,
                                65, 65, 13),
         Bollinger |-> CanonicalRow(low, high, 75, 50, 11),
         ADX |-> CanonicalRow(ind.adx.value > 50 /\ ind.adx.plusDI > ind.adx.minusDI,
                              ind.adx.value > 50 /\ ind.adx.minusDI > ind.adx.plusDI,
                              adxStrength, adxStrength, 14),
         MomentumROC |-> CanonicalRow(ind.momentum > 3 /\ ind.roc > 30,
                                      ind.momentum < -3 /\ ind.roc < -30,
                                      85, 50, 12),
         SupportResistance |->
             CanonicalRow(ind.supportResistance.distanceToSupport < 15,
                          /\ ind.supportResistance.distanceToSupport >= 15
                          /\ ind.supportResistance.distanceToResistance < 15,
                          65, 50, 11)]

\* the order of the rows in the array "signals"
CanonicalOrder ==
    <<"RSI", "Stochastic", "MACD", "SMA50", "Bollinger", "ADX", "MomentumROC",
      "SupportResistance">>

SameAsRow(sig, row) ==
    /\ sig.direction = row.direction
    /\ sig.strength = row.strength
    /\ sig.weight = row.weight

ProgressiveSignalsReturned == op = "progressiveSignals" /\ Returned

ZeroWidthBand == args.indicators.bollingerBands.upper = args.indicators.bollingerBands.lower

\* C23: for every snapshot, each of the eight signals of
\* generateProgressivePrediction has the direction, strength and weight of
\* its row of the canonical table.
C23_MapperReproducesTable ==
    ProgressiveSignalsReturned =>
        /\ Len(ret.signals) = Len(CanonicalOrder)
        /\ \A i \in 1..Len(CanonicalOrder) :
              SameAsRow(ret.signals[i],
                        CanonicalSignals(args.marketData, args.indicators)[CanonicalOrder[i]])

\* C23, away from its failure: on every snapshot whose band has a width the
\* eight signals are those of the table.
C23_TableWhereDefined ==
    (ProgressiveSignalsReturned /\ ~ZeroWidthBand) =>
        \A i \in 1..Len(CanonicalOrder) :
            SameAsRow(ret.signals[i],
                      CanonicalSignals(args.marketData, args.indicators)[CanonicalOrder[i]])

TechnicalIndicatorsReturned == op = "technicalIndicatorsList" /\ Returned

\* the table's row of an indicator of generateTransparentPrediction
CanonicalName ==
    [i \in {"RSI", "Stochastic K/D", "MACD", "SMA 20/50/200", "Bollinger Bands", "ADX"} |->
        CASE i = "RSI" -> "RSI"
          [] i = "Stochastic K/D" -> "Stochastic"
          [] i = "MACD" -> "MACD"
          [] i = "SMA 20/50/200" -> "SMA50"
          [] i = "Bollinger Bands" -> "Bollinger"
          [] i = "ADX" -> "ADX"]

CanonicalSequence(md, ind) ==
    [i \in 1..Len(CanonicalOrder) |-> CanonicalSignals(md, ind)[CanonicalOrder[i]]]

\* C24: the indicators generateTransparentPrediction aggregates carry, for
\* RSI, Stochastic, MACD, Price vs SMA50, Bollinger and ADX/DI, the direction
\* and strength of the canonical table, and its upScore and downScore are the
\* table's sums of strength times weight (compared in tenths).
C24_TransparentFollowsTable ==
    TechnicalIndicatorsReturned =>
        LET canonical == CanonicalSignals(args.marketData, args.indicators)
            sequence == CanonicalSequence(args.marketData, args.indicators)
        IN  /\ \A i \in 1..Len(ret.indicators) :
                  ret.indicators[i].name \in DOMAIN CanonicalName =>
                      LET row == canonical[CanonicalName[ret.indicators[i].name]]
                      IN  /\ ret.indicators[i].signal = row.direction
                          /\ ret.indicators[i].strength = row.strength
            /\ 10 * ret.upScore = SumWeighted(SelectSeq(sequence, SignalIsUp))
            /\ 10 * ret.downScore = SumWeighted(SelectSeq(sequence, SignalIsDown))

\* the Bollinger signal of generateProgressivePrediction at another price
BollingerDirectionAt(price) ==
    progressiveSignals([args.marketData EXCEPT !.currentPrice = price],
                       args.indicators)[5].direction

BbProbePrices == {RunPrice - PriceScale, RunPrice, RunPrice + 2 * PriceScale}

\* C25: on a band with upper = lower the mapper divides by nothing that is
\* zero, and its Bollinger signal has one direction wherever the price is,
\* so that no infinite or undefined position decides it.
C25_ZeroWidthGuarded ==
    (ProgressiveSignalsReturned /\ ZeroWidthBand) =>
        /\ ~ret.bbPosition.dividesByZero
        /\ ret.bbPosition.value = "finite"
        /\ \A p \in BbProbePrices : BollingerDirectionAt(p) = ret.signals[5].direction

(***************************************************************************)
(* Claims about the oracle-backed run (Spec)                               *)
(***************************************************************************)
\* the validation chain of a generateTransparentPrediction run has run on a
\* judgment the oracle gate returned
OracleBackedValidated ==
    /\ IsTransparent
    /\ validation # NotYet
    /\ ~IsNull(gemini.decision)

\* C26: in generateTransparentPrediction, when the oracle gate returned a
\* judgment, the validation chain rejects exactly when ADX < 15: no trend
\* conflict, low volume ratio, volume divergence or neutral RSI rejects it.
C26_OracleBackedRejectsIffRanging ==
    OracleBackedValidated =>
        (~validation.result.shouldProceed <=> indicators.adx.value < 15)

\* C26, for the judgments whose confidence is a number: the gate's clamp
\* puts it into 90..98 and the chain rejects exactly when ADX < 15.
C26_NumericConfidenceRejectsIffRanging ==
    (OracleBackedValidated /\ ~gemini.decision.confidenceIsNaN) =>
        /\ gemini.decision.confidence \in 90..98
        /\ validation.args.baseConfidence = gemini.decision.confidence
        /\ ~validation.result.shouldProceed <=> indicators.adx.value < 15

\* C28: a run of generateTransparentPrediction that has returned has put out
\* a final_verdict 'complete' event; the event's direction and confidence
\* are those of the returned Prediction, it carries tradeTargets exactly
\* when the direction is UP or DOWN, and an UP or DOWN Prediction has a
\* confidence within 80..98.
C28_VerdictEventMatchesPrediction ==
    (IsTransparent /\ RunReturned) =>
        /\ FinalVerdicts # {}
        /\ \A v \in FinalVerdicts :
              /\ v.direction = outcome.prediction.direction
              /\ v.confidence = outcome.prediction.confidence
              /\ ~v.confidenceIsNaN /\ ~outcome.prediction.confidenceIsNaN
              /\ ~IsUndefined(v.tradeTargets) <=> IsTrade(v.direction)
        /\ IsTrade(outcome.prediction.direction)
              => outcome.prediction.confidence \in 80..98

\* an accepted UP call built on the internal confidence: the event carries
\* the targets
C28_Witness ==
    /\ IsTransparent /\ RunReturned
    /\ validation.result.shouldProceed
    /\ IsNull(gemini.decision)
    /\ \E v \in FinalVerdicts :
          /\ v.direction = "UP" /\ ~IsUndefined(v.tradeTargets)
          /\ v.confidence \in 80..89
          /\ outcome.prediction.confidence = v.confidence

(***************************************************************************)
(* Claims about getGeminiPrediction's chain of models (Spec)               *)
(***************************************************************************)
ModelOrder == <<"gemini-3-pro-preview", "gemini-2.5-pro", "gemini-flash-latest">>

\* the calls made so far are the first models of the order, each once, and
\* every call but the last one threw
ChainInOrder ==
    /\ Len(gemini.calls) <= 3
    /\ \A i \in 1..Len(gemini.calls) : gemini.calls[i] = ModelOrder[i]
    /\ gemini.failed <= Len(gemini.calls)
    /\ gemini.failed >= Len(gemini.calls) - 1
    /\ (gemini.status = "returned" /\ ~IsNull(gemini.decision))
          => gemini.failed = Len(gemini.calls) - 1
    /\ (gemini.status = "returned" /\ IsNull(gemini.decision))
          => gemini.failed = 3

\* a model is called only while the invocation is running and every call
\* before threw; it is the next model of the order
CallsOnlyAfterFailure ==
    gemini'.calls # gemini.calls =>
        /\ gemini.status = "running"
        /\ gemini.failed = Len(gemini.calls)
        /\ Len(gemini.calls) < 3
        /\ gemini'.calls = Append(gemini.calls, ModelOrder[Len(gemini.calls) + 1])

\* once the invocation has returned, its result stays and no model is called
ResultIsFinal == gemini.status = "returned" => gemini' = gemini

\* C29: getGeminiPrediction calls gemini-3-pro-preview, gemini-2.5-pro and
\* gemini-flash-latest in this order, a later one only after the call before
\* it threw, at most three calls and none twice, and it returns the decision
\* of the first call that succeeds.
C29_ModelOrder ==
    /\ []ChainInOrder
    /\ [][CallsOnlyAfterFailure /\ ResultIsFinal]_vars

\* the first model threw and the second one's decision was returned
C29_Witness ==
    /\ gemini.status = "returned"
    /\ ~IsNull(gemini.decision)
    /\ gemini.calls = <<"gemini-3-pro-preview", "gemini-2.5-pro">>
    /\ gemini.failed = 1

(***************************************************************************)
(* Claims about waitForAiThinkingComplete (Spec)                           *)
(***************************************************************************)
CallbackSupplied == IsTransparent /\ entryPoint.waitForAiThinkingComplete

\* the ai_thinking 'complete' event or any final_verdict event is out
PastThinking ==
    \E i \in DOMAIN events :
        \/ events[i].stage = "ai_thinking" /\ events[i].status = "complete"
        \/ events[i].stage = "final_verdict"

\* C30: with a waitForAiThinkingComplete callback, no ai_thinking 'complete'
\* event, no final_verdict event and no returned Prediction comes before the
\* callback's promise has resolved; the callback is called at most once,
\* after the oracle gate returned, and exactly once in a run that returns;
\* when its promise is never settled the run stays where it is.
C30_WaitsForCallback ==
    CallbackSupplied =>
        /\ thinkingCallback.promise # "resolved"
              => ~PastThinking /\ outcome.kind # "returned"
        /\ thinkingCallback.awaited <= 1
        /\ thinkingCallback.awaited = 1 => gemini.status = "returned"
        /\ RunReturned => thinkingCallback.awaited = 1
        /\ thinkingCallback.promise = "never" => pc # "done" /\ ~ENABLED Next

\* a run with the callback returned its Prediction after the promise
\* resolved
C30_Witness ==
    /\ CallbackSupplied
    /\ RunReturned
    /\ thinkingCallback = [awaited |-> 1, promise |-> "resolved"]
    /\ PastThinking

=============================================================================
